---- MODULE Spec2Model ----
(***************************************************************************)
(* Token delegation and validation engine of PET_A2A--secure.             *)
(*                                                                         *)
(* Part I   Bearer Token Verifier (AsgardeoJWTMiddleware) and its JWKS     *)
(*          cache, and the service entry points that construct it.         *)
(* Part II  Token Exchanger (TokenExchanger) and the orchestrator's        *)
(*          talk_to_agent tool.                                            *)
(* Part III Master-token acquisition: UserAuthenticator (device flow) and  *)
(*          BrowserAuthenticator (authorization code with PKCE).           *)
(***************************************************************************)
EXTENDS Integers, Sequences, FiniteSets, TLC

VARIABLES
    now,              \* time.time(), in seconds
    ticks,            \* how often the clock has advanced (bounds the model)
    mw,               \* the AsgardeoJWTMiddleware object (its fields)
    entry,            \* which __main__.py started the service
    req,              \* the inbound request being handled (NoRequest when idle)
    resp,             \* what dispatch answered to it
    orch,             \* the orchestrator's configuration after main()'s set-up
    phase,            \* where the orchestrator's main() is
    MASTER_TOKEN,     \* orchestrator global
    DELEGATED_TOKENS, \* orchestrator global: agent_name -> token
    token_cache,      \* TokenExchanger._token_cache: agent_name -> {token, expiry}
    serial,           \* tokens the IdP has issued so far
    call,             \* the last talk_to_agent / exchange call and its network traffic
    environ,          \* os.environ of the service that builds the verifier
    auth              \* the authenticator object and its authenticate_user call

vars == <<now, ticks, mw, entry, req, resp,
          orch, phase, MASTER_TOKEN, DELEGATED_TOKENS, token_cache, serial, call,
          environ, auth>>

verifierVars == <<mw, entry, req, resp>>
orchVars     == <<orch, phase, MASTER_TOKEN, DELEGATED_TOKENS, token_cache, serial, call>>

None == "None"          \* Python None where the other values are strings
Nil  == [nil |-> TRUE]   \* Python None where the other values are records
NoTime == -1            \* Python None where the other values are times

(***************************************************************************)
(* Bounds                                                                  *)
(***************************************************************************)
MaxTicks == 2
MaxIssued == 2
MaxCalls == 2
MaxPolls == 3
MaxAttempts == 3
MaxTasks == 2

(***************************************************************************)
(* Part I.  Bearer Token Verifier                                          *)
(***************************************************************************)

\* self._jwks_cache_duration
JwksCacheDuration == 86400

Issuer      == "https://idp/issuer"
AgentId     == "AG"
ApiResource == "API"

\* ---- the IdP's key sets (what GET jwks_url may answer) -----------------

Key(kid, n, use) == [kid |-> kid, n |-> n, use |-> use]

\* {} : a JSON object without "keys"; falsy in Python
EmptyDoc == [hasKeys |-> FALSE, keys |-> <<>>]
Doc(keys) == [hasKeys |-> TRUE, keys |-> keys]

DocOld     == Doc(<<Key("k1", "m1", TRUE)>>)
DocRotated == Doc(<<Key("k2", "m2", TRUE)>>)
DocNoUse   == Doc(<<Key("k1", "m1", FALSE)>>)   \* "use" is optional in a JWK

JwksDocs == {DocOld, DocRotated, DocNoUse, EmptyDoc}

\* requests.get(...) + raise_for_status(): a document, or an exception
FetchFail == [failed |-> TRUE]
FetchResults == JwksDocs \cup {FetchFail}

\* a 200 answer whose body is the JSON value null: response.json() is None
NullBody == [null |-> TRUE]

\* ---- tokens ------------------------------------------------------------

NoExp == -1      \* no "exp" claim

\* aud claim: absent, a single string, or a list of strings
NoAud        == [kind |-> "absent", vals |-> <<>>]
AudStr(a)    == [kind |-> "str",    vals |-> <<a>>]
AudList(as)  == [kind |-> "list",   vals |-> as]

Auds == {NoAud, AudStr("AG"), AudStr("API"), AudStr("X"),
         AudList(<<"AG">>), AudList(<<"X", "API">>)}

Jwts == [jwt : {TRUE}, kid : {"k1", "k2"}, signer : {"m1", "m2"},
         iss : {Issuer, "https://evil"}, exp : {NoExp, 1, 86400}, aud : Auds]

\* a string that is not a JWT at all
Garbage == [jwt |-> FALSE]

Tokens == Jwts \cup {Garbage}

\* ---- requests ----------------------------------------------------------

\* a path is a sequence of chunks of its characters; startswith is the
\* prefix relation on it
PublicPaths == { <<"/.well-known/agent-card.json">>, <<"/health">> }

Paths == { <<"/">>, <<"/tasks">>, <<"/health">>, <<"/health", "z">>,
           <<"/.well-known/agent-card.json">> }

\* the Authorization header: absent, or its whitespace-separated parts
\* (parts[0] and parts[1] when there are that many)
NoHeader == [present |-> FALSE]
Header(n, scheme, tok) == [present |-> TRUE, n |-> n, scheme |-> scheme, token |-> tok]

GoodToken == [jwt |-> TRUE, kid |-> "k1", signer |-> "m1", iss |-> Issuer,
              exp |-> 86400, aud |-> AudStr("AG")]

\* "Authorization:" with an empty value: present, and no parts
EmptyHeader == Header(0, "", Garbage)

Headers == {NoHeader, EmptyHeader, Header(1, "Bearer", Garbage), Header(2, "Basic", GoodToken),
            Header(3, "Bearer", GoodToken), Header(2, "BEARER", GoodToken)}
           \cup { Header(2, "Bearer", t) : t \in Tokens }

FewHeaders == {NoHeader, Header(1, "Bearer", Garbage), Header(2, "Bearer", Garbage),
               Header(2, "Bearer", GoodToken)}

Requests == [path : {<<"/">>}, auth : Headers] \cup [path : Paths, auth : FewHeaders]

\* a faulty variant: the scheme is compared as written
LowerExact(s) == s

\* str.lower() on the schemes that occur
Lower(s) == IF s \in {"Bearer", "BEARER", "bearer"} THEN "bearer"
            ELSE IF s = "Basic" THEN "basic" ELSE s

StartsWith(path, prefix) ==
    /\ Len(prefix) <= Len(path)
    /\ SubSeq(path, 1, Len(prefix)) = prefix

\* a faulty variant: the allowlist is matched exactly
IsPublicPathExact(path) == path \in PublicPaths

\* AsgardeoJWTMiddleware._is_public_path
IsPublicPath(path) == \E p \in PublicPaths : StartsWith(path, p)

\* ---- construction ------------------------------------------------------

\* AsgardeoJWTMiddleware.__init__ : the list of valid audiences
ValidAudiences(agent_id, api_resource_identifier) ==
    (IF agent_id # "" THEN <<agent_id>> ELSE <<>>)
    \o (IF api_resource_identifier # "" THEN <<api_resource_identifier>> ELSE <<>>)

Middleware(issuer, agent_id, api_resource_identifier, enabled) ==
    [issuer          |-> issuer,
     agent_id        |-> agent_id,
     api_resource_identifier |-> api_resource_identifier,
     enabled         |-> enabled,
     valid_audiences |-> ValidAudiences(agent_id, api_resource_identifier),
     jwks_cache      |-> Nil,
     jwks_cache_time |-> NoTime]

\* the environment a service starts in
Envs == [ASGARDEO_JWKS_URL : {"", "https://idp/jwks"},
         ASGARDEO_ISSUER : {"", Issuer},
         ASGARDEO_AUTH_ENABLED : {None, "false", "True"},
         agent_id : {"", AgentId},
         API_RESOURCE_IDENTIFIER : {"", ApiResource}]

\* create_jwt_middleware_from_env
CreateJwtMiddlewareFromEnv(env) ==
    LET flag    == IF env.ASGARDEO_AUTH_ENABLED = None THEN "true"
                   ELSE IF env.ASGARDEO_AUTH_ENABLED = "True" THEN "true"
                   ELSE env.ASGARDEO_AUTH_ENABLED
        enabled == IF env.ASGARDEO_JWKS_URL = "" \/ env.ASGARDEO_ISSUER = ""
                   THEN FALSE ELSE flag = "true"
    IN  Middleware(env.ASGARDEO_ISSUER, env.agent_id,
                   env.API_RESOURCE_IDENTIFIER, enabled)

\* ---- the JWKS cache -----------------------------------------------------

\* Python truthiness of self._jwks_cache (None and {} are falsy)
Truthy(cache) == cache # Nil /\ cache # EmptyDoc

\* a faulty variant: a fetch that fails with nothing cached yields a key
\* set without keys instead of raising
GetJwksFailSoft(m, t, fetch) ==
    IF /\ m.jwks_cache # Nil
       /\ m.jwks_cache_time # NoTime
       /\ t - m.jwks_cache_time < JwksCacheDuration
    THEN [ok |-> TRUE, jwks |-> m.jwks_cache, fetched |-> FALSE,
          cache |-> m.jwks_cache, cache_time |-> m.jwks_cache_time]
    ELSE IF fetch # FetchFail
    THEN [ok |-> TRUE, jwks |-> fetch, fetched |-> TRUE,
          cache |-> fetch, cache_time |-> t]
    ELSE [ok |-> TRUE, jwks |-> IF Truthy(m.jwks_cache) THEN m.jwks_cache ELSE EmptyDoc,
          fetched |-> TRUE,
          cache |-> m.jwks_cache, cache_time |-> m.jwks_cache_time]

\* a faulty variant: the age test admits an age equal to the duration
GetJwksInclusive(m, t, fetch) ==
    IF /\ m.jwks_cache # Nil
       /\ m.jwks_cache_time # NoTime
       /\ t - m.jwks_cache_time <= JwksCacheDuration
    THEN [ok |-> TRUE, jwks |-> m.jwks_cache, fetched |-> FALSE,
          cache |-> m.jwks_cache, cache_time |-> m.jwks_cache_time]
    ELSE IF fetch # FetchFail
    THEN [ok |-> TRUE, jwks |-> fetch, fetched |-> TRUE,
          cache |-> fetch, cache_time |-> t]
    ELSE IF m.jwks_cache # Nil /\ m.jwks_cache # EmptyDoc
    THEN [ok |-> TRUE, jwks |-> m.jwks_cache, fetched |-> TRUE,
          cache |-> m.jwks_cache, cache_time |-> m.jwks_cache_time]
    ELSE [ok |-> FALSE, jwks |-> Nil, fetched |-> TRUE,
          cache |-> m.jwks_cache, cache_time |-> m.jwks_cache_time]

\* AsgardeoJWTMiddleware._get_jwks, given what the network would answer.
\* ok = FALSE: the fetch error is re-raised.  A null body is stored with
\* the time before the log line's self._jwks_cache.get raises; the handler
\* then finds the cache falsy and re-raises.
GetJwks(m, t, fetch) ==
    IF /\ m.jwks_cache # Nil
       /\ m.jwks_cache_time # NoTime
       /\ t - m.jwks_cache_time < JwksCacheDuration
    THEN [ok |-> TRUE, jwks |-> m.jwks_cache, fetched |-> FALSE,
          cache |-> m.jwks_cache, cache_time |-> m.jwks_cache_time]
    ELSE IF fetch = NullBody
    THEN [ok |-> FALSE, jwks |-> Nil, fetched |-> TRUE,
          cache |-> Nil, cache_time |-> t]
    ELSE IF fetch # FetchFail
    THEN [ok |-> TRUE, jwks |-> fetch, fetched |-> TRUE,
          cache |-> fetch, cache_time |-> t]
    ELSE IF Truthy(m.jwks_cache)
    THEN [ok |-> TRUE, jwks |-> m.jwks_cache, fetched |-> TRUE,
          cache |-> m.jwks_cache, cache_time |-> m.jwks_cache_time]
    ELSE [ok |-> FALSE, jwks |-> Nil, fetched |-> TRUE,
          cache |-> m.jwks_cache, cache_time |-> m.jwks_cache_time]

\* ---- token validation --------------------------------------------------

\* the loop over jwks['keys']: the index of the first key whose kid is
\* key_id, 0 when there is none
\* a faulty variant: the first key is taken whatever its kid
FindKeyAny(keys, key_id, i) == IF Len(keys) > 0 THEN 1 ELSE 0
RECURSIVE FindKey(_, _, _)
FindKey(keys, key_id, i) ==
    IF i > Len(keys) THEN 0
    ELSE IF keys[i].kid = key_id THEN i
    ELSE FindKey(keys, key_id, i + 1)

\* jose.jwt.decode(token, rsa_key, algorithms=['RS256'], issuer=...,
\* options={verify_signature, verify_exp, verify_iss, verify_aud: False})
SignatureOK(token, rsa_key) == token.signer = rsa_key.n
\* a faulty variant: verify_exp switched off
NotExpiredUnchecked(token, t) == TRUE
NotExpired(token, t)        == token.exp = NoExp \/ ~(token.exp < t)
IssuerOK(token, issuer)     == token.iss = issuer
JwtDecodeOK(token, rsa_key, issuer, t) ==
    /\ SignatureOK(token, rsa_key)
    /\ NotExpired(token, t)
    /\ IssuerOK(token, issuer)

\* Python: token_audience in self.valid_audiences  (a list of strings)
InList(x, list) == \E i \in 1..Len(list) : list[i] = x
AudInValid(aud, valid_audiences) ==
    /\ aud.kind = "str"
    /\ InList(aud.vals[1], valid_audiences)

\* a faulty variant: the audience is checked against an empty list as well
AudienceRejectedAlways(m, aud) == ~AudInValid(aud, m.valid_audiences)

\* STEP 5 of _validate_token: TRUE when the audience check raises
AudienceRejected(m, aud) ==
    /\ m.valid_audiences # <<>>
    /\ ~AudInValid(aud, m.valid_audiences)

\* AsgardeoJWTMiddleware._validate_token after _get_jwks returned jwks:
\* "ok" (the payload is returned), "JWTError", or "Exception" (any other
\* exception: KeyError on a document without "keys" or a key without "use")
ValidateWith(m, jwks, token, t) ==
    IF ~token.jwt THEN "JWTError"                 \* get_unverified_header
    ELSE IF ~jwks.hasKeys THEN "Exception"        \* jwks['keys']
    ELSE LET i == FindKey(jwks.keys, token.kid, 1) IN
         IF i = 0 THEN "JWTError"                 \* Public key not found
         ELSE IF ~jwks.keys[i].use THEN "Exception"   \* key['use']
         ELSE IF ~JwtDecodeOK(token, jwks.keys[i], m.issuer, t) THEN "JWTError"
         ELSE IF AudienceRejected(m, token.aud) THEN "JWTError"
         ELSE "ok"

\* ---- dispatch ----------------------------------------------------------

Response(status, error, forwarded, payload, g) ==
    [status |-> status, error |-> error, forwarded |-> forwarded,
     payload |-> payload, fetched |-> g.fetched, jwks |-> g.jwks]

NoFetch == [fetched |-> FALSE, jwks |-> Nil]

\* the application's own answer when call_next runs
AppStatus == 200

\* a faulty variant: an unmatched kid forces a refresh of the key set and
\* a second validation
DispatchRetry(m, t, r, fetch) ==
    IF ~m.enabled \/ IsPublicPath(r.path)
    THEN [resp |-> Response(AppStatus, "", TRUE, Nil, NoFetch), mw |-> m]
    ELSE IF ~r.auth.present \/ r.auth.n = 0      \* not auth_header
    THEN [resp |-> Response(401, "unauthorized", FALSE, Nil, NoFetch), mw |-> m]
    ELSE IF r.auth.n # 2 \/ Lower(r.auth.scheme) # "bearer"
    THEN [resp |-> Response(401, "invalid_request", FALSE, Nil, NoFetch), mw |-> m]
    ELSE LET g1 == GetJwks(m, t, fetch)
             m1 == [m EXCEPT !.jwks_cache = g1.cache, !.jwks_cache_time = g1.cache_time]
             miss == /\ g1.ok /\ r.auth.token.jwt /\ g1.jwks.hasKeys
                     /\ FindKey(g1.jwks.keys, r.auth.token.kid, 1) = 0
             g  == IF miss THEN GetJwks([m1 EXCEPT !.jwks_cache_time = NoTime], t, fetch)
                   ELSE g1
             m2 == [m EXCEPT !.jwks_cache = g.cache, !.jwks_cache_time = g.cache_time]
             v  == IF g.ok THEN ValidateWith(m, g.jwks, r.auth.token, t)
                   ELSE "Exception"
         IN  IF v = "ok"
             THEN [resp |-> Response(AppStatus, "", TRUE, r.auth.token, g), mw |-> m2]
             ELSE IF v = "JWTError"
             THEN [resp |-> Response(401, "invalid_token", FALSE, Nil, g), mw |-> m2]
             ELSE [resp |-> Response(500, "server_error", FALSE, Nil, g), mw |-> m2]

\* AsgardeoJWTMiddleware.dispatch: the response, and the cache afterwards
Dispatch(m, t, r, fetch) ==
    IF ~m.enabled
    THEN [resp |-> Response(AppStatus, "", TRUE, Nil, NoFetch), mw |-> m]
    ELSE IF IsPublicPath(r.path)
    THEN [resp |-> Response(AppStatus, "", TRUE, Nil, NoFetch), mw |-> m]
    ELSE IF ~r.auth.present \/ r.auth.n = 0      \* not auth_header
    THEN [resp |-> Response(401, "unauthorized", FALSE, Nil, NoFetch), mw |-> m]
    ELSE IF r.auth.n # 2 \/ Lower(r.auth.scheme) # "bearer"
    THEN [resp |-> Response(401, "invalid_request", FALSE, Nil, NoFetch), mw |-> m]
    ELSE LET g  == GetJwks(m, t, fetch)
             m2 == [m EXCEPT !.jwks_cache = g.cache, !.jwks_cache_time = g.cache_time]
             v  == IF g.ok THEN ValidateWith(m, g.jwks, r.auth.token, t)
                   ELSE "Exception"
         IN  IF v = "ok"
             THEN [resp |-> Response(AppStatus, "", TRUE, r.auth.token, g), mw |-> m2]
             ELSE IF v = "JWTError"
             THEN [resp |-> Response(401, "invalid_token", FALSE, Nil, g), mw |-> m2]
             ELSE [resp |-> Response(500, "server_error", FALSE, Nil, g), mw |-> m2]

\* ---- service entry points ----------------------------------------------

\* the four __main__.py files that call create_jwt_middleware_from_env
EntryPoints == {"appoinments", "vaccination",
                "agents/appointments_agent", "agents/vaccination_agent"}

\* whether uvicorn.run is handed the middleware (app = jwt_middleware) or
\* the application that server.build() returned
ServesMiddleware(e) == e \in {"agents/appointments_agent", "agents/vaccination_agent"}

\* what the served ASGI application does with a request
Serve(e, m, t, r, fetch) ==
    IF ServesMiddleware(e) THEN Dispatch(m, t, r, fetch)
    ELSE [resp |-> Response(AppStatus, "", TRUE, Nil, NoFetch), mw |-> m]

(***************************************************************************)
(* Part II.  Token Exchanger and talk_to_agent                             *)
(***************************************************************************)

\* agent names, as the words of the name
VaxAgent     == <<"Pet", "Vaccination", "Assistant">>
ApptAgent    == <<"Pet", "Clinic", "Scheduler">>
WeatherAgent == <<"Weather", "Bot">>
GhostAgent   == <<"Ghost">>          \* a name the LLM made up

\* KNOWN_AGENTS after discovery
KnownAgents == {VaxAgent, ApptAgent, WeatherAgent}
AgentNames  == KnownAgents \cup {GhostAgent}

\* "word" in agent_name
Contains(agent_name, word) == \E i \in 1..Len(agent_name) : agent_name[i] = word

Placeholders == {"<YOUR_VACCINATION_AGENT_SECRET>", "<YOUR_APPOINTMENTS_AGENT_SECRET>"}

\* the values of this model that still contain an angle-bracket template
AngleBracketed ==
    Placeholders \cup {"<your_vaccination_client_id>", "<your-secret>", "<scope>"}

\* is_valid(value): value and '<' not in value and '>' not in value
IsValid(value) == value # "" /\ value \notin AngleBracketed

\* TokenExchanger._get_agent_secret ; None is returned as ""
GetAgentSecret(env, agent_name) ==
    LET secret == IF Contains(agent_name, "Vaccination") THEN env.VACCINATION_APP_SECRET
                  ELSE IF \/ Contains(agent_name, "Appointment")
                          \/ Contains(agent_name, "Scheduler")
                          \/ Contains(agent_name, "Clinic")
                       THEN env.APPOINTMENTS_APP_SECRET
                  ELSE ""
    IN  IF secret # "" /\ secret \notin Placeholders THEN secret ELSE ""

\* AgentConfig
AgentConfig(app_id, app_secret, required_scope) ==
    [app_id |-> app_id, app_secret |-> app_secret, required_scope |-> required_scope]

VaxConfig     == AgentConfig("VAX1", "vax-secret", "vaccination:read")
ApptConfig    == AgentConfig("APPT1", "appt-secret", "appointments:read")
WeatherConfig == AgentConfig("WX1", "wx-secret", "weather:read")

\* ---- tokens and the IdP ------------------------------------------------

MasterLifetime == 3600

MasterToken(id, exp)         == [kind |-> "master", for |-> <<>>, id |-> id, exp |-> exp]
DelegatedToken(for, id, exp) == [kind |-> "delegated", for |-> for, id |-> id, exp |-> exp]

\* a master token of an earlier login, long expired
StaleMaster == MasterToken(-1, 0)

\* what the token endpoint may answer to a client_credentials request
ActorAnswers == { [status |-> 200, body |-> ""],
                  [status |-> 401, body |-> "invalid_client"] }

\* what it may answer to a token-exchange request: the token's lifetime and
\* whether the response states it in expires_in
NoExpiresIn == -1
ExchangeAnswers ==
    { [status |-> 200, body |-> "", lifetime |-> 30,  expires_in |-> 30],
      [status |-> 200, body |-> "", lifetime |-> 120, expires_in |-> 120],
      [status |-> 200, body |-> "", lifetime |-> 30,  expires_in |-> NoExpiresIn],
      [status |-> 400, body |-> "invalid_grant", lifetime |-> 0, expires_in |-> NoExpiresIn] }

\* the IdP issues a token only for a subject token that has not expired
IdpMayAnswer(ans, subject, t) == ans.status = 200 => ~(subject.exp < t)

\* ---- the exchanger's cache ---------------------------------------------

SafetyMargin     == 60
DefaultExpiresIn == 3600

NoEntry == Nil
CacheEntry(token, expiry) == [token |-> token, expiry |-> expiry]

\* a faulty variant: the expiry comparison is inverted
GetCachedTokenInverted(cache, agent_name, t) ==
    IF cache[agent_name] = NoEntry
    THEN [token |-> Nil, cache |-> cache]
    ELSE IF t > cache[agent_name].expiry
    THEN [token |-> cache[agent_name].token, cache |-> cache]
    ELSE [token |-> Nil, cache |-> [cache EXCEPT ![agent_name] = NoEntry]]

\* TokenExchanger._get_cached_token: the token (Nil for None) and the cache
\* afterwards (an expired entry is deleted)
GetCachedToken(cache, agent_name, t) ==
    IF cache[agent_name] = NoEntry
    THEN [token |-> Nil, cache |-> cache]
    ELSE IF t < cache[agent_name].expiry
    THEN [token |-> cache[agent_name].token, cache |-> cache]
    ELSE [token |-> Nil, cache |-> [cache EXCEPT ![agent_name] = NoEntry]]

\* TokenExchanger.clear_cache
ClearCache(cache, agent_name) ==
    IF agent_name # <<>>
    THEN [cache EXCEPT ![agent_name] = NoEntry]
    ELSE [a \in DOMAIN cache |-> NoEntry]

\* ---- network requests --------------------------------------------------

\* TokenExchanger.client_id and client_secret: the orchestrator's own
OrchestratorClientId == "ORCH1"
OrchestratorClientSecret == "orch-secret"

\* a faulty variant: the actor token is minted with the orchestrator's credentials
ActorRequestAsOrchestrator(client_id, secret) ==
    [kind |-> "actor", grant_type |-> "client_credentials", scope |-> "openid",
     basic |-> <<OrchestratorClientId, OrchestratorClientSecret>>]

ActorRequest(client_id, secret) ==
    [kind |-> "actor", grant_type |-> "client_credentials", scope |-> "openid",
     basic |-> <<client_id, secret>>]

\* scope: required_scope, or "openid {identifier}/{required_scope}"
FormattedScope(api_resource_identifier, required_scope) ==
    IF api_resource_identifier # ""
    THEN <<"openid", api_resource_identifier, "/", required_scope>>
    ELSE <<required_scope>>

\* a faulty variant: the exchange is authenticated as the orchestrator
ExchangeRequestAsOrchestrator(orc, master_token, client_id, secret, required_scope, t) ==
    [kind |-> "exchange", grant_type |-> "token-exchange",
     subject_token |-> master_token,
     scope |-> FormattedScope(orc.api_resource_identifier, required_scope),
     audience |-> orc.api_resource_identifier,
     basic |-> <<OrchestratorClientId, OrchestratorClientSecret>>, at |-> t]

ExchangeRequest(orc, master_token, client_id, secret, required_scope, t) ==
    [kind |-> "exchange", grant_type |-> "token-exchange",
     subject_token |-> master_token,
     scope |-> FormattedScope(orc.api_resource_identifier, required_scope),
     audience |-> orc.api_resource_identifier,
     basic |-> <<client_id, secret>>, at |-> t]

A2ARequest(agent_name, token, t) ==
    [kind |-> "a2a", to |-> agent_name, authorization |-> token, at |-> t]

\* ---- exchange ----------------------------------------------------------

NoError == [template |-> "", agent |-> <<>>, body |-> ""]
Error(template, agent_name, body) ==
    [template |-> template, agent |-> agent_name, body |-> body]

\* TokenExchanger.exchange_token_for_agent, given what the IdP would answer
\* and the serial number of the token it would issue.
\* raised = TRUE: an exception leaves the call; error is its message.
ExchangeTokenForAgent(orc, cache, master_token, agent_name, agent_client_id, required_scope, t, actorAns, exchAns, id) ==
    LET c      == GetCachedToken(cache, agent_name, t)
        secret == GetAgentSecret(orc.env, agent_name)
        actorRq == ActorRequest(agent_client_id, secret)
        exchRq  == ExchangeRequest(orc, master_token, agent_client_id, secret,
                                   required_scope, t)
        token   == DelegatedToken(agent_name, id, t + exchAns.lifetime)
        ttl     == IF exchAns.expires_in = NoExpiresIn THEN DefaultExpiresIn
                   ELSE exchAns.expires_in
    IN  IF c.token # Nil
        THEN [raised |-> FALSE, token |-> c.token, error |-> NoError,
              net |-> <<>>, cache |-> c.cache, issued |-> FALSE]
        ELSE IF secret = ""
        THEN [raised |-> TRUE, token |-> Nil,
              error |-> Error("No client secret configured for", agent_name, ""),
              net |-> <<>>, cache |-> c.cache, issued |-> FALSE]
        ELSE IF actorAns.status # 200
        THEN [raised |-> TRUE, token |-> Nil,
              error |-> Error("Failed to get actor token:", <<>>, actorAns.body),
              net |-> <<actorRq>>, cache |-> c.cache, issued |-> FALSE]
        ELSE IF exchAns.status # 200
        THEN [raised |-> TRUE, token |-> Nil,
              error |-> Error("Token exchange failed for", agent_name, exchAns.body),
              net |-> <<actorRq, exchRq>>, cache |-> c.cache, issued |-> FALSE]
        ELSE [raised |-> FALSE, token |-> token, error |-> NoError,
              net |-> <<actorRq, exchRq>>,
              cache |-> [c.cache EXCEPT ![agent_name] =
                            CacheEntry(token, t + ttl - SafetyMargin)],
              issued |-> TRUE]

\* ---- talk_to_agent ----------------------------------------------------

\* what the target service may answer to the A2A request
ServiceAnswers == {"200", "401", "unreachable"}

CallResult(op, agent_name, master, ok, error, net, token) ==
    [op |-> op, agent |-> agent_name, master |-> master, ok |-> ok,
     error |-> error, net |-> net, token |-> token]

\* a faulty variant: the message always goes out through the default client
SendMessageDefaultClient(agent_name, agent_token, t, svcAns, net) ==
    CallResult("talk_to_agent", agent_name, Nil, svcAns = "200",
               IF svcAns = "200" THEN NoError
               ELSE Error("Error communicating with", agent_name, svcAns),
               Append(net, A2ARequest(agent_name, Nil, t)), agent_token)

\* STEP 3-5 of talk_to_agent: the message is sent with agent_token
SendMessage(agent_name, agent_token, t, svcAns, net) ==
    LET rq == IF agent_token # Nil
              THEN A2ARequest(agent_name, agent_token, t)
              ELSE A2ARequest(agent_name, Nil, t)     \* default client, no header
    IN  IF svcAns = "200"
        THEN CallResult("talk_to_agent", agent_name, Nil, TRUE, NoError,
                        Append(net, rq), agent_token)
        ELSE CallResult("talk_to_agent", agent_name, Nil, FALSE,
                        Error("Error communicating with", agent_name, svcAns),
                        Append(net, rq), agent_token)

\* talk_to_agent: what it returns and sends, and the two caches afterwards
TalkToAgent(orc, master, delegated, cache, agent_name, t, actorAns, exchAns, id, svcAns) ==
    IF agent_name \notin orc.KNOWN_AGENTS
    THEN [call |-> CallResult("talk_to_agent", agent_name, Nil, FALSE,
                              Error("Error: Agent is not available", agent_name, ""),
                              <<>>, Nil),
          delegated |-> delegated, cache |-> cache, issued |-> FALSE]
    ELSE IF delegated[agent_name] # Nil
    THEN [call |-> SendMessage(agent_name, delegated[agent_name], t, svcAns, <<>>),
          delegated |-> delegated, cache |-> cache, issued |-> FALSE]
    ELSE IF orc.TOKEN_EXCHANGER /\ master # Nil /\ orc.AGENT_CONFIGS[agent_name] # Nil
    THEN LET agent_config == orc.AGENT_CONFIGS[agent_name]
             x == ExchangeTokenForAgent(orc, cache, master, agent_name,
                                        agent_config.app_id,
                                        agent_config.required_scope,
                                        t, actorAns, exchAns, id)
         IN  IF x.raised
             THEN [call |-> CallResult("talk_to_agent", agent_name, Nil, FALSE,
                                       Error("Error: Token exchange failed for",
                                             agent_name, x.error.body),
                                       x.net, Nil),
                   delegated |-> delegated, cache |-> x.cache, issued |-> FALSE]
             ELSE [call |-> SendMessage(agent_name, x.token, t, svcAns, x.net),
                   delegated |-> [delegated EXCEPT ![agent_name] = x.token],
                   cache |-> x.cache, issued |-> x.issued]
    ELSE [call |-> CallResult("talk_to_agent", agent_name, Nil, FALSE,
                              Error("Error: Cannot get token. Configuration missing.",
                                    agent_name, ""),
                              <<>>, Nil),
          delegated |-> delegated, cache |-> cache, issued |-> FALSE]

\* ---- the orchestrator as a state machine -------------------------------

\* what main() leaves behind: TOKEN_EXCHANGER (None when authentication
\* could not be initialised), KNOWN_AGENTS, AGENT_CONFIGS, the environment
OrchConfig(ex, api, wx, vs) ==
    [TOKEN_EXCHANGER |-> ex,
     api_resource_identifier |-> api,
     KNOWN_AGENTS |-> KnownAgents,
     AGENT_CONFIGS |-> [a \in KnownAgents |->
                          IF a = VaxAgent THEN VaxConfig
                          ELSE IF a = ApptAgent THEN ApptConfig
                          ELSE IF wx THEN WeatherConfig ELSE Nil],
     env |-> [VACCINATION_APP_SECRET |-> vs,
              APPOINTMENTS_APP_SECRET |-> "appt-secret"]]

OrchConfigs ==
    { OrchConfig(TRUE, "", FALSE, "vax-secret"),
      OrchConfig(TRUE, ApiResource, TRUE, "<YOUR_VACCINATION_AGENT_SECRET>"),
      OrchConfig(FALSE, "", FALSE, "vax-secret") }

NoTokens == [a \in KnownAgents |-> Nil]

OrchIdle ==
    /\ orch = OrchConfig(FALSE, "", FALSE, "vax-secret")
    /\ phase = "start"
    /\ MASTER_TOKEN = Nil
    /\ DELEGATED_TOKENS = NoTokens
    /\ token_cache = NoTokens
    /\ serial = 0
    /\ call = Nil

NoEnviron == [ASGARDEO_JWKS_URL |-> "", ASGARDEO_ISSUER |-> "",
              ASGARDEO_AUTH_ENABLED |-> None, agent_id |-> "",
              API_RESOURCE_IDENTIFIER |-> ""]

\* no authenticator object in this process
AuthIdle == auth = Nil

VerifierIdle ==
    /\ environ = NoEnviron
    /\ mw = Middleware("", "", "", FALSE)
    /\ entry = "none"
    /\ req = [path |-> <<>>, auth |-> NoHeader]
    /\ resp = [status |-> 0, error |-> "", forwarded |-> FALSE,
               payload |-> Nil, fetched |-> FALSE, jwks |-> Nil]

OInit ==
    /\ now = 0
    /\ ticks = 0
    /\ orch \in OrchConfigs
    /\ phase = "start"
    /\ MASTER_TOKEN = Nil
    /\ DELEGATED_TOKENS = NoTokens
    /\ token_cache = NoTokens
    /\ serial = 0
    /\ call = Nil
    /\ VerifierIdle
    /\ AuthIdle

OTickSizes == {60, 3600}

OTick ==
    /\ phase = "running"
    /\ call = Nil
    /\ ticks < MaxTicks
    /\ \E d \in OTickSizes : now' = now + d
    /\ ticks' = ticks + 1
    /\ UNCHANGED orchVars
    /\ UNCHANGED <<environ, auth>>
    /\ UNCHANGED verifierVars
    /\ UNCHANGED <<environ, auth>>

\* main(), STEP 1-2: the single login (or none, without an authenticator)
OLogin ==
    /\ phase = "start"
    /\ \/ /\ orch.TOKEN_EXCHANGER
          /\ MASTER_TOKEN' = MasterToken(0, now + MasterLifetime)
          /\ phase' = "running"
       \/ /\ orch.TOKEN_EXCHANGER          \* authentication failed: main returns
          /\ MASTER_TOKEN' = MASTER_TOKEN
          /\ phase' = "stopped"
       \/ /\ ~orch.TOKEN_EXCHANGER
          /\ MASTER_TOKEN' = MASTER_TOKEN
          /\ phase' = "running"
    /\ UNCHANGED <<now, ticks, orch, DELEGATED_TOKENS, token_cache, serial, call>>
    /\ UNCHANGED verifierVars
    /\ UNCHANGED <<environ, auth>>

\* the LLM calls the tool
OTalk ==
    /\ phase = "running"
    /\ call = Nil
    /\ \E agent_name \in AgentNames, actorAns \in ActorAnswers,
          exchAns \in ExchangeAnswers, svcAns \in ServiceAnswers :
          LET r == TalkToAgent(orch, MASTER_TOKEN, DELEGATED_TOKENS, token_cache,
                               agent_name, now, actorAns, exchAns, serial + 1, svcAns)
          IN  /\ MASTER_TOKEN # Nil => IdpMayAnswer(exchAns, MASTER_TOKEN, now)
              /\ r.issued => serial < MaxIssued
              /\ call' = r.call
              /\ DELEGATED_TOKENS' = r.delegated
              /\ token_cache' = r.cache
              /\ serial' = IF r.issued THEN serial + 1 ELSE serial
    /\ UNCHANGED <<now, ticks, orch, phase, MASTER_TOKEN>>
    /\ UNCHANGED verifierVars
    /\ UNCHANGED <<environ, auth>>

\* a caller uses the exchanger directly, with a master token of its choice
OExchange ==
    /\ phase = "running"
    /\ orch.TOKEN_EXCHANGER
    /\ call = Nil
    /\ \E agent_name \in KnownAgents, master \in {MASTER_TOKEN, StaleMaster},
          actorAns \in ActorAnswers, exchAns \in ExchangeAnswers :
          LET agent_config == orch.AGENT_CONFIGS[agent_name]
              x == ExchangeTokenForAgent(orch, token_cache, master, agent_name,
                                         agent_config.app_id,
                                         agent_config.required_scope,
                                         now, actorAns, exchAns, serial + 1)
          IN  /\ master # Nil
              /\ agent_config # Nil
              /\ IdpMayAnswer(exchAns, master, now)
              /\ x.issued => serial < MaxIssued
              /\ call' = CallResult("exchange_token_for_agent", agent_name, master,
                                    ~x.raised, x.error, x.net, x.token)
              /\ token_cache' = x.cache
              /\ serial' = IF x.issued THEN serial + 1 ELSE serial
    /\ UNCHANGED <<now, ticks, orch, phase, MASTER_TOKEN, DELEGATED_TOKENS>>
    /\ UNCHANGED verifierVars
    /\ UNCHANGED <<environ, auth>>

\* a caller clears the exchanger's cache (one agent, or all with None)
OClearCache ==
    /\ phase = "running"
    /\ orch.TOKEN_EXCHANGER
    /\ call = Nil
    /\ \E agent_name \in KnownAgents \cup {<<>>} :
          token_cache' = ClearCache(token_cache, agent_name)
    /\ UNCHANGED <<now, ticks, orch, phase, MASTER_TOKEN, DELEGATED_TOKENS, serial, call>>
    /\ UNCHANGED verifierVars
    /\ UNCHANGED <<environ, auth>>

\* the call has returned
OReturn ==
    /\ call # Nil
    /\ call' = Nil
    /\ UNCHANGED <<now, ticks, orch, phase, MASTER_TOKEN, DELEGATED_TOKENS,
                   token_cache, serial>>
    /\ UNCHANGED verifierVars
    /\ UNCHANGED <<environ, auth>>

ONext == OTick \/ OLogin \/ OTalk \/ OExchange \/ OClearCache \/ OReturn

OSpec == OInit /\ [][ONext]_vars

\* ---- discovery and the credential resolver ------------------------------------

\* str.lower() and str.upper() on the words agent names are made of
LowerWord(w) ==
    CASE w = "Pet" -> "pet"
      [] w = "Vaccination" -> "vaccination"
      [] w = "Assistant" -> "assistant"
      [] w = "Clinic" -> "clinic"
      [] w = "Scheduler" -> "scheduler"
      [] w = "Weather" -> "weather"
      [] w = "Bot" -> "bot"
      [] OTHER -> w
UpperWord(w) ==
    CASE w = "Pet" -> "PET"
      [] w = "Vaccination" -> "VACCINATION"
      [] w = "Assistant" -> "ASSISTANT"
      [] w = "Clinic" -> "CLINIC"
      [] w = "Scheduler" -> "SCHEDULER"
      [] w = "Weather" -> "WEATHER"
      [] w = "Bot" -> "BOT"
      [] OTHER -> w

\* ignore_words of derive_env_var_name and of get_agent_config_from_env
DeriveIgnoreWords ==
    {"the", "a", "an", "and", "or", "but", "for", "of", "to", "in", "on", "at",
     "assistant", "agent", "service", "helper", "bot", "system", "manager",
     "handler", "processor", "worker", "server", "client", "api", "pet", "pets"}
PatternIgnoreWords ==
    {"the", "a", "an", "and", "or", "but", "for", "of", "to", "in", "on", "at",
     "assistant", "agent", "service", "helper", "bot", "system", "manager",
     "pet", "pets"}

Significant(words, ignore) ==
    SelectSeq(words, LAMBDA w : LowerWord(w) \notin ignore)

\* derive_env_var_name
DeriveEnvVarName(agent_name, suffix) ==
    LET significant_words == Significant(agent_name, DeriveIgnoreWords) IN
    IF significant_words # <<>> THEN UpperWord(significant_words[1]) \o suffix
    ELSE UpperWord(agent_name[1]) \o suffix

\* "_".join(words), the words being upper-cased first
RECURSIVE JoinUpper(_)
JoinUpper(words) ==
    IF words = <<>> THEN ""
    ELSE IF Len(words) = 1 THEN UpperWord(words[1])
    ELSE UpperWord(words[1]) \o "_" \o JoinUpper(Tail(words))

\* the words that make 'clinic', 'scheduler' or 'appointment' occur in the name
AppointmentWords == {"clinic", "scheduler", "appointment", "appointments"}

\* the patterns get_agent_config_from_env tries, in order
Patterns(agent_name) ==
    LET significant_words == Significant(agent_name, PatternIgnoreWords)
        primary  == <<DeriveEnvVarName(agent_name, "")>>
        combined == IF Len(significant_words) > 1 THEN <<JoinUpper(significant_words)>>
                    ELSE <<>>
        full     == <<JoinUpper(agent_name)>>
        alias    == IF \E i \in DOMAIN agent_name : LowerWord(agent_name[i]) \in AppointmentWords
                    THEN <<"APPOINTMENTS">> ELSE <<>>
    IN  alias \o primary \o combined \o full

\* os.getenv(name, '')
Getenv(env, name) == IF name \in DOMAIN env THEN env[name] ELSE ""

\* get_agent_config_from_env, None being returned as ""
NotFound == [app_id |-> "", app_secret |-> "", required_scope |-> ""]
RECURSIVE TryPatterns(_, _)
TryPatterns(env, patterns) ==
    IF patterns = <<>> THEN NotFound
    ELSE LET app_id         == Getenv(env, patterns[1] \o "_APP_ID")
             app_secret     == Getenv(env, patterns[1] \o "_APP_SECRET")
             required_scope == Getenv(env, patterns[1] \o "_REQUIRED_SCOPE")
         IN  IF IsValid(app_id)
             THEN [app_id |-> app_id,
                   app_secret |-> IF IsValid(app_secret) THEN app_secret ELSE "",
                   required_scope |-> IF IsValid(required_scope) THEN required_scope ELSE ""]
             ELSE TryPatterns(env, Tail(patterns))
GetAgentConfigFromEnv(env, agent_name) == TryPatterns(env, Patterns(agent_name))

\* the agent card a service publishes: its name and metadata['asgardeo']
Meta(application_id, required_scope) ==
    [application_id |-> application_id, required_scope |-> required_scope]
Card(name, asgardeo) == [name |-> name, asgardeo |-> asgardeo]
Unreachable == [unreachable |-> TRUE]

\* the candidate URLs of config.json and what each may answer
CandidateUrls == <<"http://localhost:10005", "http://localhost:10006", "http://localhost:10007">>
Cards(url) ==
    IF url = CandidateUrls[1]
    THEN { Card(VaxAgent, Nil), Card(VaxAgent, Meta("VAX1", "vaccination:read")),
           Card(VaxAgent, Meta("<your_vaccination_client_id>", "vaccination:read")) }
    ELSE IF url = CandidateUrls[2]
    THEN { Card(ApptAgent, Nil) }
    ELSE { Card(WeatherAgent, Nil), Card(WeatherAgent, Meta("WX1", "")),
           Card(WeatherAgent, Meta("WX1", "weather:read")) }
FetchOutcomes(url) == {Unreachable} \cup Cards(url)

\* the orchestrator's environment
DiscoveryEnv(vid, vsecret, asecret, wid) ==
    [VACCINATION_APP_ID |-> vid, VACCINATION_APP_SECRET |-> vsecret,
     VACCINATION_REQUIRED_SCOPE |-> "vaccination:read",
     APPOINTMENTS_APP_ID |-> "APPT1", APPOINTMENTS_APP_SECRET |-> asecret,
     APPOINTMENTS_REQUIRED_SCOPE |-> "appointments:read",
     WEATHER_APP_ID |-> wid, WEATHER_APP_SECRET |-> "",
     WEATHER_REQUIRED_SCOPE |-> "<scope>"]
DiscoveryEnvs ==
    { DiscoveryEnv("VAX1", "vax-secret", "appt-secret", ""),
      DiscoveryEnv("<your_vaccination_client_id>", "<YOUR_VACCINATION_AGENT_SECRET>",
                   "<your-secret>", "WX1") }

\* main, STEP 5, the body of the loop after the card has been fetched: the
\* ServiceIdentity registered for the card, or Nil when none is
ResolveConfig(env, card) ==
    LET meta_id    == IF card.asgardeo # Nil THEN card.asgardeo.application_id ELSE ""
        meta_scope == IF card.asgardeo # Nil THEN card.asgardeo.required_scope ELSE ""
        found      == GetAgentConfigFromEnv(env, card.name)
        app_id     == IF meta_id # "" THEN meta_id ELSE found.app_id
        required_scope == IF meta_id = "" /\ found.app_id # "" /\ meta_scope = ""
                          THEN found.required_scope ELSE meta_scope
        app_secret == IF app_id # "" THEN found.app_secret ELSE ""
    IN  IF app_id # "" /\ required_scope # ""
        THEN AgentConfig(app_id, app_secret, required_scope)
        ELSE Nil

\* a faulty variant: a failed URL makes discovery forget what it had found
FailedForgets(orc) ==
    [orc EXCEPT !.KNOWN_AGENTS = {}, !.AGENT_CONFIGS = [a \in KnownAgents |-> Nil]]

\* except Exception: the failure is printed and the loop goes on
Failed(orc) == orc

\* one iteration of the discovery loop
Discover(orc, fetch) ==
    LET o == [orc EXCEPT !.scanned = Append(@, fetch)] IN
    IF fetch = Unreachable THEN Failed(o)
    ELSE LET config == ResolveConfig(orc.env, fetch) IN
         [o EXCEPT !.KNOWN_AGENTS = @ \cup {fetch.name},
                   !.AGENT_CONFIGS = IF config # Nil
                                     THEN [@ EXCEPT ![fetch.name] = config] ELSE @]

\* main before STEP 5: the user has logged in, nothing is discovered yet
Undiscovered(env) ==
    [TOKEN_EXCHANGER |-> TRUE, api_resource_identifier |-> "",
     KNOWN_AGENTS |-> {}, AGENT_CONFIGS |-> [a \in KnownAgents |-> Nil],
     env |-> env, scanned |-> <<>>]

DInit ==
    /\ now = 0
    /\ ticks = 0
    /\ \E env \in DiscoveryEnvs : orch = Undiscovered(env)
    /\ phase = "discovering"
    /\ MASTER_TOKEN = MasterToken(0, MasterLifetime)
    /\ DELEGATED_TOKENS = NoTokens
    /\ token_cache = NoTokens
    /\ serial = 0
    /\ call = Nil
    /\ VerifierIdle
    /\ AuthIdle

\* for url in candidate_urls, and after the last one: if not KNOWN_AGENTS: return
DDiscover ==
    /\ phase = "discovering"
    /\ LET i == Len(orch.scanned) + 1 IN
       \E fetch \in FetchOutcomes(CandidateUrls[i]) :
          /\ orch' = Discover(orch, fetch)
          /\ phase' = IF i < Len(CandidateUrls) THEN "discovering"
                      ELSE IF orch'.KNOWN_AGENTS = {} THEN "stopped"
                      ELSE "running"
    /\ UNCHANGED <<now, ticks, MASTER_TOKEN, DELEGATED_TOKENS, token_cache, serial, call>>
    /\ UNCHANGED verifierVars
    /\ UNCHANGED <<environ, auth>>

DNext == DDiscover \/ OTalk \/ OReturn

DSpec == DInit /\ [][DNext]_vars

\* ---- the verifier as a state machine -----------------------------------

NoRequest  == [path |-> <<>>, auth |-> NoHeader]
NoResponse == [status |-> 0, error |-> "", forwarded |-> FALSE,
               payload |-> Nil, fetched |-> FALSE, jwks |-> Nil]

VInit ==
    /\ now = 0
    /\ ticks = 0
    /\ environ \in Envs
    /\ mw = CreateJwtMiddlewareFromEnv(environ)
    /\ entry = "middleware"
    /\ req = NoRequest
    /\ resp = NoResponse
    /\ OrchIdle
    /\ AuthIdle

\* the clock moves between two requests
VTickSizes == {1, 86399}

Idle == req = NoRequest /\ resp = NoResponse

VTick ==
    /\ Idle
    /\ ticks < MaxTicks
    /\ \E d \in VTickSizes : now' = now + d
    /\ ticks' = ticks + 1
    /\ UNCHANGED <<mw, entry, req, resp>>
    /\ UNCHANGED orchVars
    /\ UNCHANGED <<environ, auth>>

\* one inbound request handled by the middleware
VRequest ==
    /\ Idle
    /\ \E r \in Requests, fetch \in FetchResults :
          LET d == Dispatch(mw, now, r, fetch) IN
          /\ req' = r
          /\ resp' = d.resp
          /\ mw' = d.mw
    /\ UNCHANGED <<now, ticks, entry>>
    /\ UNCHANGED orchVars
    /\ UNCHANGED <<environ, auth>>

\* the response has been sent: the request and its request.state are gone
VFinish ==
    /\ ~Idle
    /\ req' = NoRequest
    /\ resp' = NoResponse
    /\ UNCHANGED <<now, ticks, mw, entry>>
    /\ UNCHANGED orchVars
    /\ UNCHANGED <<environ, auth>>

VNext == VTick \/ VRequest \/ VFinish

VSpec == VInit /\ [][VNext]_vars

\* ---- the key-set cache under every kind of answer -----------------------

\* what GET jwks_url may answer, a null body included
JwksAnswers == FetchResults \cup {NullBody}

BearerRequests == [path : {<<"/">>}, auth : {Header(2, "Bearer", GoodToken), Header(2, "Bearer", Garbage)}]

\* one inbound request with a Bearer header handled by the middleware
JRequest ==
    /\ Idle
    /\ \E r \in BearerRequests, fetch \in JwksAnswers :
          LET d == Dispatch(mw, now, r, fetch) IN
          /\ req' = r
          /\ resp' = d.resp
          /\ mw' = d.mw
    /\ UNCHANGED <<now, ticks, entry>>
    /\ UNCHANGED orchVars
    /\ UNCHANGED <<environ, auth>>

JNext == VTick \/ JRequest \/ VFinish

JSpec == VInit /\ [][JNext]_vars

\* ---- the entry points as a state machine -------------------------------

EInit ==
    /\ now = 0
    /\ ticks = 0
    /\ environ \in Envs
    /\ mw = CreateJwtMiddlewareFromEnv(environ)
    /\ entry \in EntryPoints
    /\ req = NoRequest
    /\ resp = NoResponse
    /\ OrchIdle
    /\ AuthIdle

\* one inbound request handled by the application uvicorn serves
ERequest ==
    /\ Idle
    /\ \E r \in Requests, fetch \in FetchResults :
          LET d == Serve(entry, mw, now, r, fetch) IN
          /\ req' = r
          /\ resp' = d.resp
          /\ mw' = d.mw
    /\ UNCHANGED <<now, ticks, entry>>
    /\ UNCHANGED orchVars
    /\ UNCHANGED <<environ, auth>>

ENext == VTick \/ ERequest \/ VFinish

ESpec == EInit /\ [][ENext]_vars

(***************************************************************************)
(* Part III.  Master-token acquisition                                     *)
(***************************************************************************)

ExpiryBuffer    == 300      \* "5 min buffer"
PollTimeout     == 300      \* poll_for_token(timeout=300)
DefaultInterval == 5        \* device_data.get('interval', 5)
SlowDownStep    == 5        \* interval += 5
NoInterval      == -1       \* device_data without 'interval'

\* requests the current authenticate_user call has sent to the IdP
NoCalls == [device |-> 0, authorize |-> 0, token |-> 0]

\* UserAuthenticator.__init__ / BrowserAuthenticator.__init__: the cached
\* token is _master_token (device flow) or _access_token (browser flow);
\* the other fields describe the authenticate_user call in progress
NewAuthenticator(strategy) ==
    [strategy |-> strategy, master_token |-> Nil, refresh_token |-> Nil,
     token_expiry |-> NoTime, refreshes |-> 0,
     pc |-> "idle", calls |-> 0, net |-> NoCalls, result |-> Nil, error |-> "",
     start_time |-> 0, interval |-> 0, polls |-> 0, pendings |-> 0,
     slow_downs |-> 0, last |-> "", last_poll_at |-> 0, waited |-> 0]

\* what the device-authorization endpoint may answer: to the first request,
\* to the retry with Basic authentication, and the interval it states
DeviceAnswer(first, retry, interval) ==
    [first |-> first, retry |-> retry, interval |-> interval]
DeviceAnswers ==
    { DeviceAnswer(200, 0, NoInterval), DeviceAnswer(200, 0, 10),
      DeviceAnswer(401, 200, NoInterval), DeviceAnswer(401, 401, NoInterval),
      DeviceAnswer(500, 0, NoInterval) }

\* UserAuthenticator.initiate_device_flow
InitiateDeviceFlow(dev) ==
    LET retried == dev.first \in {400, 401}
        final   == IF retried THEN dev.retry ELSE dev.first
    IN  [ok |-> final = 200,
         requests |-> IF retried THEN 2 ELSE 1,
         interval |-> dev.interval]

\* what the token endpoint may answer to a device_code poll
TokenData(lifetime, expires_in) ==
    [status |-> 200, error |-> "", lifetime |-> lifetime, expires_in |-> expires_in,
     refresh_token |-> FALSE]
PollError(error_code) ==
    [status |-> 400, error |-> error_code, lifetime |-> 0, expires_in |-> NoExpiresIn,
     refresh_token |-> FALSE]
\* a token response that carries a refresh token as well
WithRefreshToken(token_data) == [token_data EXCEPT !.refresh_token = TRUE]
RefreshToken(id) == [kind |-> "refresh", id |-> id]
PollAnswers ==
    { WithRefreshToken(TokenData(600, 600)), TokenData(3600, 3600),
      TokenData(3600, NoExpiresIn) }
    \cup { PollError(e) : e \in {"authorization_pending", "slow_down", "expired_token",
                                 "access_denied", "server_error"} }

\* the cached-token test of authenticate_user and get_cached_token
CachedValid(a, t) ==
    /\ a.master_token # Nil
    /\ a.token_expiry # NoTime
    /\ t < a.token_expiry - ExpiryBuffer

\* a call of authenticate_user begins
Begin(a) ==
    [a EXCEPT !.calls = @ + 1, !.net = NoCalls, !.result = Nil, !.error = "",
              !.polls = 0, !.pendings = 0, !.slow_downs = 0, !.last = "",
              !.last_poll_at = 0, !.waited = 0, !.start_time = 0, !.interval = 0]

\* UserAuthenticator.authenticate_user up to the start of the poll loop
AuthenticateUser(a, t, dev) ==
    LET b == Begin(a)
        d == InitiateDeviceFlow(dev)
    IN  IF CachedValid(a, t)
        THEN [b EXCEPT !.pc = "returned", !.result = a.master_token]
        ELSE IF ~d.ok
        THEN [b EXCEPT !.pc = "raised", !.error = "HTTPStatusError",
                       !.net.device = d.requests]
        ELSE [b EXCEPT !.pc = "polling", !.net.device = d.requests,
                       !.start_time = t,
                       !.interval = IF d.interval = NoInterval THEN DefaultInterval
                                    ELSE d.interval]

\* poll_for_token: the checks on one response
\* a faulty variant: the success status is never recognised
SucceededNever(ans) == FALSE
Succeeded(ans) == ans.status = 200
\* a faulty variant: every error keeps the loop polling
KeepsPollingAlways(error_code) == TRUE
KeepsPolling(error_code) == error_code \in {"authorization_pending", "slow_down"}
\* a faulty variant: slow_down shortens the interval
NextIntervalReset(error_code, interval) ==
    IF error_code = "slow_down" THEN DefaultInterval ELSE interval
NextInterval(error_code, interval) ==
    IF error_code = "slow_down" THEN interval + SlowDownStep ELSE interval
\* a faulty variant: the timeout is measured a minute too late
TimedOutLate(t, start_time, timeout) == t - start_time > timeout + 60
TimedOut(t, start_time, timeout) == t - start_time > timeout

\* one iteration of the loop of poll_for_token, and what authenticate_user
\* does when the loop returns or raises: the authenticator and the clock
\* afterwards
Poll(a, t, ans) ==
    IF TimedOut(t, a.start_time, PollTimeout)
    THEN [auth |-> [a EXCEPT !.pc = "raised", !.error = "TimeoutError", !.last = ""],
          now |-> t]
    ELSE LET b == [a EXCEPT !.polls = @ + 1, !.net.token = @ + 1,
                            !.last_poll_at = t,
                            !.last = IF ans.status = 200 THEN "200" ELSE ans.error]
         IN  IF Succeeded(ans)
             THEN LET token == MasterToken(a.calls, t + ans.lifetime)
                      ttl   == IF ans.expires_in = NoExpiresIn THEN DefaultExpiresIn
                               ELSE ans.expires_in
                  IN  [auth |-> [b EXCEPT !.pc = "returned", !.result = token,
                                          !.master_token = token,
                                          !.refresh_token = IF ans.refresh_token
                                                            THEN RefreshToken(a.calls)
                                                            ELSE Nil,
                                          !.token_expiry = t + ttl],
                       now |-> t]
             ELSE IF KeepsPolling(ans.error)
             THEN LET i == NextInterval(ans.error, a.interval) IN
                  [auth |-> [b EXCEPT !.interval = i, !.waited = i,
                                      !.pendings = IF ans.error = "authorization_pending"
                                                   THEN @ + 1 ELSE @,
                                      !.slow_downs = IF ans.error = "slow_down"
                                                     THEN @ + 1 ELSE @],
                   now |-> t + i]
             ELSE [auth |-> [b EXCEPT !.pc = "raised",
                                      !.error = IF ans.error \in {"expired_token", "access_denied"}
                                                THEN "Authentication failed"
                                                ELSE "Token polling error"],
                   now |-> t]

\* the redirect the local callback server receives, and the token endpoint's
\* answer to the authorization_code request
Callbacks == {"code", "error", "none"}
CodeAnswers == { TokenData(3600, 3600), PollError("invalid_grant") }

\* BrowserAuthenticator.authenticate_user
BrowserAuthenticateUser(a, t, cb, ans) ==
    LET b == [Begin(a) EXCEPT !.net.authorize = 1] IN
    IF cb = "error" THEN [b EXCEPT !.pc = "raised", !.error = "Asgardeo error"]
    ELSE IF cb = "none"
    THEN [b EXCEPT !.pc = "raised", !.error = "Failed to receive authorization code"]
    ELSE IF ans.status # 200
    THEN [b EXCEPT !.pc = "raised", !.net.token = 1,
                   !.error = "Failed to exchange code for token"]
    ELSE LET token == MasterToken(a.calls, t + ans.lifetime) IN
         [b EXCEPT !.pc = "returned", !.net.token = 1, !.result = token,
                   !.master_token = token]

\* ---- the authenticator as a state machine ------------------------------

AInit ==
    /\ now = 0
    /\ ticks = 0
    /\ auth \in {NewAuthenticator("device"), NewAuthenticator("browser")}
    /\ OrchIdle
    /\ VerifierIdle

ATickSizes == {60, 300}

ATick ==
    /\ auth.pc # "polling"
    /\ ticks < MaxTicks
    /\ \E d \in ATickSizes : now' = now + d
    /\ ticks' = ticks + 1
    /\ UNCHANGED <<auth, environ>>
    /\ UNCHANGED verifierVars
    /\ UNCHANGED orchVars

AAuthenticate ==
    /\ auth.strategy = "device"
    /\ auth.pc # "polling"
    /\ auth.calls < MaxCalls
    /\ \E dev \in DeviceAnswers : auth' = AuthenticateUser(auth, now, dev)
    /\ UNCHANGED <<now, ticks, environ>>
    /\ UNCHANGED verifierVars
    /\ UNCHANGED orchVars

ABrowserAuthenticate ==
    /\ auth.strategy = "browser"
    /\ auth.calls < MaxCalls
    /\ \E cb \in Callbacks, ans \in CodeAnswers :
          auth' = BrowserAuthenticateUser(auth, now, cb, ans)
    /\ UNCHANGED <<now, ticks, environ>>
    /\ UNCHANGED verifierVars
    /\ UNCHANGED orchVars

APoll ==
    /\ auth.pc = "polling"
    /\ \E ans \in PollAnswers :
          LET p == Poll(auth, now, ans) IN
          /\ auth' = p.auth
          /\ now' = p.now
    /\ UNCHANGED <<ticks, environ>>
    /\ UNCHANGED verifierVars
    /\ UNCHANGED orchVars

\* the loop, followed for its first iterations only
ABoundedPoll ==
    /\ auth.polls < MaxPolls
    /\ APoll

ANext == ATick \/ AAuthenticate \/ ABrowserAuthenticate \/ ABoundedPoll

ASpec == AInit /\ [][ANext]_vars

\* ---- refreshing the master token ---------------------------------------------

\* what the token endpoint may answer to a refresh_token request
RefreshAnswers ==
    { WithRefreshToken(TokenData(3600, 3600)), TokenData(3600, 3600),
      TokenData(3600, NoExpiresIn), PollError("invalid_grant") }

\* a faulty variant: a response without a refresh token clears the stored one
StoredRefreshTokenOrNone(old, token_data, new) ==
    IF token_data.refresh_token THEN new ELSE Nil

\* token_data.get('refresh_token', self._refresh_token)
StoredRefreshToken(old, token_data, new) ==
    IF token_data.refresh_token THEN new ELSE old

\* UserAuthenticator.refresh_master_token ; tokens it obtains are numbered
\* from 101
RefreshMasterToken(a, t, ans) ==
    LET b == [a EXCEPT !.refreshes = @ + 1, !.net = NoCalls, !.result = Nil,
                       !.error = "", !.last = ""]
    IN  IF a.refresh_token = Nil
        THEN [b EXCEPT !.pc = "raised", !.error = "No refresh token available"]
        ELSE LET c == [b EXCEPT !.net.token = 1,
                                !.last = IF ans.status # 200 THEN ans.error
                                         ELSE IF ans.refresh_token THEN "200 refresh_token"
                                         ELSE "200"]
             IN  IF ans.status # 200
                 THEN [c EXCEPT !.pc = "raised", !.error = "HTTPStatusError"]
                 ELSE LET token == MasterToken(100 + b.refreshes, t + ans.lifetime)
                          ttl   == IF ans.expires_in = NoExpiresIn THEN DefaultExpiresIn
                                   ELSE ans.expires_in
                      IN  [c EXCEPT !.pc = "returned", !.result = token,
                                    !.master_token = token,
                                    !.refresh_token =
                                        StoredRefreshToken(a.refresh_token, ans,
                                                           RefreshToken(100 + b.refreshes)),
                                    !.token_expiry = t + ttl]

RInit ==
    /\ now = 0
    /\ ticks = 0
    /\ auth = NewAuthenticator("device")
    /\ OrchIdle
    /\ VerifierIdle

RRefresh ==
    /\ auth.pc # "polling"
    /\ auth.refreshes < MaxCalls
    /\ \E ans \in RefreshAnswers : auth' = RefreshMasterToken(auth, now, ans)
    /\ UNCHANGED <<now, ticks, environ>>
    /\ UNCHANGED verifierVars
    /\ UNCHANGED orchVars

RNext == ATick \/ AAuthenticate \/ ABoundedPoll \/ RRefresh

RSpec == RInit /\ [][RNext]_vars

\* ---- poll_for_token on its own --------------------------------------------

\* authenticate_user has obtained the device code and enters the loop
PInit ==
    /\ now = 0
    /\ ticks = 0
    /\ \E dev \in DeviceAnswers :
          /\ InitiateDeviceFlow(dev).ok
          /\ auth = AuthenticateUser(NewAuthenticator("device"), 0, dev)
    /\ OrchIdle
    /\ VerifierIdle

PNext == APoll

PSpec == PInit /\ [][PNext]_vars

\* the loop keeps running: every iteration is taken
PFairSpec == PSpec /\ WF_vars(APoll)

\* ---- the authorization-code flow, step by step ------------------------------

\* the two ports the callback listener may bind, server.timeout, and the
\* length of the random part of the verifier
CallbackPort == 8080
FallbackPort == 8081
ListenerTimeout == 300
VerifierBytes == 32
DigestBytes == 32

\* the agents a caller may name as requested_actor
ActorIds == {"VAX1", "APPT1"}
RequestedActors == {<<>>} \cup { <<a>> : a \in ActorIds }

\* CallbackHandler's class attributes: they belong to the class, not to an
\* attempt, and keep their values from one attempt to the next
NewCallbackHandler == [authorization_code |-> Nil, error |-> None]

\* the query string of the redirect that reaches the listener
Query(code, error, state) == [code |-> code, error |-> error, state |-> state]

\* secrets.token_urlsafe(16) of the n-th attempt; a state that no attempt of
\* this process generated; no state parameter at all
State(n) == [state |-> n]
ForeignState == [state |-> 0]
NoState == Nil
AuthCode(n) == [code |-> n]
Queries(n) ==
    { Query(AuthCode(n), None, State(n)), Query(AuthCode(n), None, ForeignState),
      Query(AuthCode(n), None, NoState), Query(Nil, "access_denied", State(n)),
      Query(AuthCode(n), "access_denied", State(n)), Query(Nil, None, State(n)) }

\* no request reaches the listener before server.timeout
NoCallback == [timeout |-> TRUE]
CallbackEvents(n) == Queries(n) \cup {NoCallback}

\* a faulty variant: a redirect whose state is not one this process generated is ignored
DoGETKnownState(h, q) ==
    IF q.state \in {ForeignState, NoState} THEN h
    ELSE IF q.error # None THEN [h EXCEPT !.error = q.error]
    ELSE IF q.code # Nil THEN [h EXCEPT !.authorization_code = q.code]
    ELSE h

\* CallbackHandler.do_GET
DoGET(h, q) ==
    IF q.error # None THEN [h EXCEPT !.error = q.error]
    ELSE IF q.code # Nil THEN [h EXCEPT !.authorization_code = q.code]
    ELSE h

\* server.handle_request(): one request is served, or none when the timeout
\* passes first
HandleRequest(h, cb) ==
    IF cb = NoCallback THEN [handler |-> h, served |-> 0]
    ELSE [handler |-> DoGET(h, cb), served |-> 1]

\* secrets.token_bytes, hashlib.sha256(..).digest(), str.encode,
\* base64.urlsafe_b64encode and str.rstrip('='), as terms
TokenBytes(n, rnd) == [bytes |-> n, random |-> rnd]
Encode(s) == [bytes |-> s.chars, utf8 |-> s]
Sha256(b) == [bytes |-> DigestBytes, sha256 |-> b]
UrlSafeB64Encode(b) ==
    [chars |-> 4 * ((b.bytes + 2) \div 3), pad |-> (3 - (b.bytes % 3)) % 3, b64url |-> b]
RStripPad(s) == [s EXCEPT !.chars = @ - s.pad, !.pad = 0]

\* a faulty variant: the challenge is the verifier itself (method "plain")
GeneratePkcePairPlain(rnd) ==
    LET code_verifier == RStripPad(UrlSafeB64Encode(TokenBytes(VerifierBytes, rnd))) IN
    [code_verifier |-> code_verifier, code_challenge |-> code_verifier]

\* BrowserAuthenticator._generate_pkce_pair
GeneratePkcePair(rnd) ==
    LET code_verifier == RStripPad(UrlSafeB64Encode(TokenBytes(VerifierBytes, rnd))) IN
    [code_verifier |-> code_verifier,
     code_challenge |-> RStripPad(UrlSafeB64Encode(Sha256(Encode(code_verifier))))]

\* the authorization URL opened in the browser
NoActor == <<>>
AuthorizeRequest(pkce, requested_actor, state) ==
    [response_type |-> "code", code_challenge |-> pkce.code_challenge,
     code_challenge_method |-> "S256", requested_actor |-> requested_actor,
     state |-> state]
NoAuthorize == [response_type |-> "none", state |-> NoState]

\* the requests to the token endpoint
ActorToken(for, id) == [kind |-> "actor", for |-> for, id |-> id]
BrowserActorRequest(client_id) ==
    [kind |-> "actor", grant_type |-> "client_credentials", client_id |-> client_id]
CodeExchangeRequest(code, code_verifier, actor_token, actor_token_type) ==
    [kind |-> "code", grant_type |-> "authorization_code", code |-> code,
     code_verifier |-> code_verifier, actor_token |-> actor_token,
     actor_token_type |-> actor_token_type]
AccessTokenType == "urn:ietf:params:oauth:token-type:access_token"

\* the listener: HTTPServer(('localhost', port), CallbackHandler) fails with
\* "Address already in use" while an earlier listener still holds the port
NoPort == 0
Bind(listening, ports) ==
    IF ports = <<>> THEN NoPort
    ELSE IF ports[1] \notin listening THEN ports[1]
    ELSE IF Len(ports) > 1 /\ ports[2] \notin listening THEN ports[2]
    ELSE NoPort

\* neither variant calls server_close(): the port is given back only when the
\* interpreter finalises the abandoned server object, which it may do before
\* the attempt ends or later
Abandon(listening, port, finalised) ==
    IF port = NoPort \/ finalised THEN listening ELSE listening \cup {port}

\* what one attempt did
NoAttempt ==
    [entry |-> "none", authorize |-> NoAuthorize, pkce |-> Nil, callback |-> Nil,
     port |-> NoPort, served |-> 0, net |-> <<>>, raised |-> None, result |-> Nil]

NewBrowserAuthenticator ==
    [strategy |-> "authorization_code", access_token |-> Nil,
     handler |-> NewCallbackHandler, listening |-> {}, attempts |-> 0,
     used |-> {}, last |-> NoAttempt]

\* a faulty variant: the handler's attributes are left as they are
ResetKeepsCode(h) == h

\* the resets before the listener starts: authenticate_user clears all the
\* attributes, _get_authorization_code_with_actor the code only
ResetAll(h) == NewCallbackHandler
ResetCode(h) == [h EXCEPT !.authorization_code = Nil]

\* the attempt, once recorded in the authenticator
Attempted(b, att, h, port, finalised, token) ==
    [b EXCEPT !.attempts = @ + 1,
              !.handler = h,
              !.listening = Abandon(@, port, finalised),
              !.used = IF att.pkce = Nil THEN @ ELSE @ \cup {att.pkce.code_verifier},
              !.access_token = IF token = Nil THEN @ ELSE token,
              !.last = att]

\* BrowserAuthenticator.authenticate_user(requested_actors)
AuthenticateUserPkce(b, t, requested_actors, cb, ans, finalised) ==
    LET n     == b.attempts + 1
        pkce  == GeneratePkcePair(n)
        actor == IF requested_actors = <<>> THEN NoActor
                 ELSE <<requested_actors[Len(requested_actors)]>>
        a0    == [NoAttempt EXCEPT !.entry = "authenticate_user", !.pkce = pkce,
                                   !.authorize = AuthorizeRequest(pkce, actor, State(n))]
        h0    == ResetAll(b.handler)
        port  == Bind(b.listening, <<CallbackPort, FallbackPort>>)
    IN
    IF port = NoPort
    THEN Attempted(b, [a0 EXCEPT !.raised = "Address already in use"], h0, NoPort, TRUE, Nil)
    ELSE
    LET hr == HandleRequest(h0, cb)
        h  == hr.handler
        a1 == [a0 EXCEPT !.port = port, !.callback = cb, !.served = hr.served]
    IN
    IF h.error # None
    THEN Attempted(b, [a1 EXCEPT !.raised = "Asgardeo error"], h, port, finalised, Nil)
    ELSE IF h.authorization_code = Nil
    THEN Attempted(b, [a1 EXCEPT !.raised = "Failed to receive authorization code"],
                   h, port, finalised, Nil)
    ELSE
    LET rq == CodeExchangeRequest(h.authorization_code, pkce.code_verifier, Nil, None)
        a2 == [a1 EXCEPT !.net = <<rq>>]
    IN
    IF ans.status # 200
    THEN Attempted(b, [a2 EXCEPT !.raised = "Failed to exchange code for token"],
                   h, port, finalised, Nil)
    ELSE LET token == MasterToken(n, t + ans.lifetime) IN
         Attempted(b, [a2 EXCEPT !.result = token], h, port, finalised, token)

\* BrowserAuthenticator.authenticate_user_with_delegation(actor_client_id, ..)
AuthenticateUserWithDelegation(b, t, actor_client_id, actorOk, cb, ans, finalised) ==
    LET n       == b.attempts + 1
        actorRq == BrowserActorRequest(actor_client_id)
        a0      == [NoAttempt EXCEPT !.entry = "authenticate_user_with_delegation",
                                     !.net = <<actorRq>>]
    IN
    IF ~actorOk
    THEN Attempted(b, [a0 EXCEPT !.raised = "Failed to get actor token"],
                   b.handler, NoPort, TRUE, Nil)
    ELSE
    LET actor_token == ActorToken(actor_client_id, n)
        pkce == GeneratePkcePair(n)
        a1   == [a0 EXCEPT !.pkce = pkce,
                           !.authorize = AuthorizeRequest(pkce, <<actor_client_id>>, State(n))]
        h0   == ResetCode(b.handler)
        port == Bind(b.listening, <<CallbackPort>>)
    IN
    IF port = NoPort
    THEN Attempted(b, [a1 EXCEPT !.raised = "Address already in use"], h0, NoPort, TRUE, Nil)
    ELSE
    LET hr == HandleRequest(h0, cb)
        h  == hr.handler
        a2 == [a1 EXCEPT !.port = port, !.callback = cb, !.served = hr.served]
    IN
    IF h.authorization_code = Nil
    THEN Attempted(b, [a2 EXCEPT !.raised = "Failed to receive authorization code"],
                   h, port, finalised, Nil)
    ELSE
    LET rq == CodeExchangeRequest(h.authorization_code, pkce.code_verifier,
                                  actor_token, AccessTokenType)
        a3 == [a2 EXCEPT !.net = <<actorRq, rq>>]
    IN
    IF ans.status # 200
    THEN Attempted(b, [a3 EXCEPT !.raised = "Failed to exchange code"],
                   h, port, finalised, Nil)
    ELSE Attempted(b, [a3 EXCEPT !.result = DelegatedToken(actor_client_id, n, t + ans.lifetime)],
                   h, port, finalised, Nil)

\* ---- the authorization-code flow as a state machine -----------------------

BInit ==
    /\ now = 0
    /\ ticks = 0
    /\ auth = NewBrowserAuthenticator
    /\ OrchIdle
    /\ VerifierIdle

\* the time the attempt took: the whole of server.timeout when nothing came
Elapsed(b) == IF b.last.port # NoPort /\ b.last.served = 0 THEN ListenerTimeout ELSE 0

BAuthenticateUser ==
    /\ auth.attempts < MaxAttempts
    /\ \E requested_actors \in RequestedActors, cb \in CallbackEvents(auth.attempts + 1),
          ans \in CodeAnswers, finalised \in BOOLEAN :
          /\ auth' = AuthenticateUserPkce(auth, now, requested_actors, cb, ans, finalised)
          /\ now' = now + Elapsed(auth')
    /\ UNCHANGED <<ticks, environ>>
    /\ UNCHANGED verifierVars
    /\ UNCHANGED orchVars

BAuthenticateUserWithDelegation ==
    /\ auth.attempts < MaxAttempts
    /\ \E actor_client_id \in ActorIds, actorOk \in BOOLEAN,
          cb \in CallbackEvents(auth.attempts + 1), ans \in CodeAnswers,
          finalised \in BOOLEAN :
          /\ auth' = AuthenticateUserWithDelegation(auth, now, actor_client_id, actorOk,
                                                    cb, ans, finalised)
          /\ now' = now + Elapsed(auth')
    /\ UNCHANGED <<ticks, environ>>
    /\ UNCHANGED verifierVars
    /\ UNCHANGED orchVars

BNext == BAuthenticateUser \/ BAuthenticateUserWithDelegation

BSpec == BInit /\ [][BNext]_vars

\* ---- concurrent exchange calls ------------------------------------------------

\* the coroutines that may be inside exchange_token_for_agent at once (the
\* tools of one LLM turn run together), each suspended at its awaits
Tasks == 1..MaxTasks
ExchangeTargets == {VaxAgent, ApptAgent}

IdleTask == [pc |-> "idle", agent |-> <<>>, rq |-> Nil, token |-> Nil, raced |-> FALSE]

\* the call is suspended in client.post: its request is in flight
InFlight(task) == task.pc \in {"actor", "exchange"}

\* another coroutine has a request in flight for the same service
Racing(tasks, t, agent_name) ==
    \E u \in Tasks \ {t} : InFlight(tasks[u]) /\ tasks[u].agent = agent_name

\* exchange_token_for_agent up to its first await: the cache is read, the
\* secret looked up and the actor-token request posted; no lock is taken
StartExchange(orc, cache, tasks, t, agent_name, time) ==
    LET c      == GetCachedToken(cache, agent_name, time)
        secret == GetAgentSecret(orc.env, agent_name)
        task   == [IdleTask EXCEPT !.agent = agent_name]
    IN  IF c.token # Nil
        THEN [task |-> [task EXCEPT !.pc = "done", !.token = c.token], cache |-> c.cache]
        ELSE IF secret = ""
        THEN [task |-> [task EXCEPT !.pc = "raised"], cache |-> c.cache]
        ELSE [task |-> [task EXCEPT !.pc = "actor",
                                    !.rq = ActorRequest(orc.AGENT_CONFIGS[agent_name].app_id, secret),
                                    !.raced = Racing(tasks, t, agent_name)],
              cache |-> c.cache]

\* the actor token arrives: the exchange request is posted
ResumeWithActorToken(orc, master_token, task, actorAns, time) ==
    IF actorAns.status # 200 THEN [task EXCEPT !.pc = "raised", !.rq = Nil]
    ELSE [task EXCEPT !.pc = "exchange",
                      !.rq = ExchangeRequest(orc, master_token,
                                             orc.AGENT_CONFIGS[task.agent].app_id,
                                             GetAgentSecret(orc.env, task.agent),
                                             orc.AGENT_CONFIGS[task.agent].required_scope, time)]

\* the exchange response arrives: the token is stored and returned
ResumeWithToken(cache, task, exchAns, id, time) ==
    IF exchAns.status # 200
    THEN [task |-> [task EXCEPT !.pc = "raised", !.rq = Nil], cache |-> cache]
    ELSE LET token == DelegatedToken(task.agent, id, time + exchAns.lifetime)
             ttl   == IF exchAns.expires_in = NoExpiresIn THEN DefaultExpiresIn
                      ELSE exchAns.expires_in
         IN  [task |-> [task EXCEPT !.pc = "done", !.rq = Nil, !.token = token],
              cache |-> [cache EXCEPT ![task.agent] = CacheEntry(token, time + ttl - SafetyMargin)]]

CInit ==
    /\ now = 0
    /\ ticks = 0
    /\ orch = OrchConfig(TRUE, "", FALSE, "vax-secret")
    /\ phase = "running"
    /\ MASTER_TOKEN = MasterToken(0, MasterLifetime)
    /\ DELEGATED_TOKENS = NoTokens
    /\ token_cache = NoTokens
    /\ serial = 0
    /\ call = [t \in Tasks |-> IdleTask]
    /\ VerifierIdle
    /\ AuthIdle

\* talk_to_agent up to its first await: a token in DELEGATED_TOKENS is used
\* as it is, otherwise the exchanger is called
ServedFromDelegated(delegated, agent_name) ==
    [IdleTask EXCEPT !.pc = "served", !.agent = agent_name, !.token = delegated[agent_name]]

\* talk_to_agent after the exchanger returned: the token is stored
StoreDelegated(delegated, task) ==
    IF task.pc = "done" THEN [delegated EXCEPT ![task.agent] = task.token] ELSE delegated

CStart ==
    /\ \E t \in Tasks, agent_name \in ExchangeTargets :
          /\ call[t].pc = "idle"
          /\ IF DELEGATED_TOKENS[agent_name] # Nil
             THEN /\ call' = [call EXCEPT ![t] = ServedFromDelegated(DELEGATED_TOKENS, agent_name)]
                  /\ token_cache' = token_cache
             ELSE LET s == StartExchange(orch, token_cache, call, t, agent_name, now) IN
                  /\ call' = [call EXCEPT ![t] = s.task]
                  /\ token_cache' = s.cache
    /\ UNCHANGED <<now, ticks, orch, phase, MASTER_TOKEN, DELEGATED_TOKENS, serial>>
    /\ UNCHANGED verifierVars
    /\ UNCHANGED <<environ, auth>>

CActorAnswer ==
    /\ \E t \in Tasks, actorAns \in ActorAnswers :
          /\ call[t].pc = "actor"
          /\ call' = [call EXCEPT ![t] = ResumeWithActorToken(orch, MASTER_TOKEN, call[t],
                                                              actorAns, now)]
    /\ UNCHANGED <<now, ticks, orch, phase, MASTER_TOKEN, DELEGATED_TOKENS, token_cache, serial>>
    /\ UNCHANGED verifierVars
    /\ UNCHANGED <<environ, auth>>

CExchangeAnswer ==
    /\ \E t \in Tasks, exchAns \in ExchangeAnswers :
          /\ call[t].pc = "exchange"
          /\ IdpMayAnswer(exchAns, MASTER_TOKEN, now)
          /\ exchAns.status = 200 => serial < MaxIssued
          /\ LET r == ResumeWithToken(token_cache, call[t], exchAns, serial + 1, now) IN
             /\ call' = [call EXCEPT ![t] = r.task]
             /\ token_cache' = r.cache
          /\ serial' = IF exchAns.status = 200 THEN serial + 1 ELSE serial
    /\ UNCHANGED <<now, ticks, orch, phase, MASTER_TOKEN, DELEGATED_TOKENS>>
    /\ UNCHANGED verifierVars
    /\ UNCHANGED <<environ, auth>>

\* the exchanger has returned or raised: talk_to_agent stores the token it
\* got, and the caller may call again
CReturn ==
    /\ \E t \in Tasks :
          /\ call[t].pc \in {"done", "raised", "served"}
          /\ DELEGATED_TOKENS' = StoreDelegated(DELEGATED_TOKENS, call[t])
          /\ call' = [call EXCEPT ![t] = IdleTask]
    /\ UNCHANGED <<now, ticks, orch, phase, MASTER_TOKEN, token_cache, serial>>
    /\ UNCHANGED verifierVars
    /\ UNCHANGED <<environ, auth>>

CNext == CStart \/ CActorAnswer \/ CExchangeAnswer \/ CReturn

CSpec == CInit /\ [][CNext]_vars

\* ---- the token-aware service agents ---------------------------------------------

\* AppointmentAgentWithToken and PetVaccinationAgentWithToken: one instance
\* serves every request of the process
TokenServices == {"appoinments", "vaccination"}
NewAgentWithToken == [validated_token |-> None]

\* the keyword a query contains, and the tokens a caller may pass to stream
QueryWords == {"smith", "jones", "groom", "bath", "dog", "puppy", "cat", "kitten",
               "rabbit", "bunny", "hello"}
StreamTokens == {None, "", "tokA", "tokB"}
ContextIds == {"ctx1", "ctx2"}

\* validate_token: the token is stored and True returned, whatever it is
ValidateToken(agent, token) == [agent EXCEPT !.validated_token = token]

\* the keyword matching of stream
Topic(service, query) ==
    IF service = "appoinments"
    THEN IF query = "smith" THEN "dr_smith"
         ELSE IF query = "jones" THEN "dr_jones"
         ELSE IF query \in {"groom", "bath"} THEN "grooming"
         ELSE "help"
    ELSE IF query \in {"dog", "puppy"} THEN "dog"
         ELSE IF query \in {"cat", "kitten"} THEN "cat"
         ELSE IF query \in {"rabbit", "bunny"} THEN "rabbit"
         ELSE "help"

\* "Verified with secure token" is appended if self._validated_token
VerifiedMark(agent, token) == agent.validated_token \notin {None, ""}

\* stream(query, context_id, token): the agent afterwards and what it yields
Stream(agent, service, query, context_id, token) ==
    LET a == IF token \notin {None, ""} THEN ValidateToken(agent, token) ELSE agent IN
    [agent |-> a,
     item  |-> [is_task_complete |-> TRUE, topic |-> Topic(service, query),
                verified |-> VerifiedMark(a, token), context_id |-> context_id]]

NoItem == [is_task_complete |-> FALSE, topic |-> "", verified |-> FALSE, context_id |-> ""]
NoQuery == [query |-> "", context_id |-> "", token |-> None]

TInit ==
    /\ now = 0
    /\ ticks = 0
    /\ entry \in TokenServices
    /\ mw = NewAgentWithToken
    /\ req = NoQuery
    /\ resp = NoItem
    /\ environ = NoEnviron
    /\ OrchIdle
    /\ AuthIdle

\* a request reaches the agent
TStream ==
    /\ \E query \in QueryWords, context_id \in ContextIds, token \in StreamTokens :
          LET s == Stream(mw, entry, query, context_id, token) IN
          /\ req' = [query |-> query, context_id |-> context_id, token |-> token]
          /\ mw' = s.agent
          /\ resp' = s.item
    /\ UNCHANGED <<now, ticks, entry, environ, auth>>
    /\ UNCHANGED orchVars

TNext == TStream

TSpec == TInit /\ [][TNext]_vars

\* ---- the client-credentials token manager ---------------------------------------

\* self._expiry_buffer, and the lifetime assumed when expires_in is missing
ManagerExpiryBuffer == 300
ManagerDefaultExpiresIn == 3600

ClientToken(id, exp) == [kind |-> "client", id |-> id, exp |-> exp]
NoOp == [op |-> "none", fetched |-> FALSE, result |-> Nil, raised |-> FALSE]

\* AsgardeoTokenManager.__init__ ; calls counts the requests to the endpoint
NewTokenManager ==
    [access_token |-> Nil, token_expiry |-> NoTime, calls |-> 0, last |-> NoOp]

\* what client.fetch_token may do: return a token response, with or without
\* expires_in or access_token, or raise
FetchRaises == [ok |-> FALSE, access_token |-> FALSE, expires_in |-> NoExpiresIn]
TokenResponse(access_token, expires_in) ==
    [ok |-> TRUE, access_token |-> access_token, expires_in |-> expires_in]
TokenResponses ==
    { TokenResponse(TRUE, 600), TokenResponse(TRUE, 3600), TokenResponse(TRUE, NoExpiresIn),
      TokenResponse(FALSE, 3600), FetchRaises }

\* a faulty variant: the token counts as valid until the moment it expires
IsTokenValidNoBuffer(m, t) ==
    /\ m.access_token # Nil
    /\ m.token_expiry # NoTime
    /\ t < m.token_expiry

\* AsgardeoTokenManager._is_token_valid
IsTokenValid(m, t) ==
    /\ m.access_token # Nil
    /\ m.token_expiry # NoTime
    /\ t < m.token_expiry - ManagerExpiryBuffer

\* AsgardeoTokenManager.get_token
GetToken(m, t, ans) ==
    IF IsTokenValid(m, t)
    THEN [m EXCEPT !.last = [op |-> "get_token", fetched |-> FALSE,
                             result |-> m.access_token, raised |-> FALSE]]
    ELSE LET sent == [m EXCEPT !.calls = @ + 1] IN
         IF ~ans.ok \/ ~ans.access_token
         THEN [sent EXCEPT !.last = [op |-> "get_token", fetched |-> TRUE,
                                     result |-> Nil, raised |-> TRUE]]
         ELSE LET expires_in == IF ans.expires_in = NoExpiresIn THEN ManagerDefaultExpiresIn
                                ELSE ans.expires_in
                  token == ClientToken(sent.calls, t + expires_in)
              IN  [sent EXCEPT !.access_token = token,
                               !.token_expiry = t + expires_in,
                               !.last = [op |-> "get_token", fetched |-> TRUE,
                                         result |-> token, raised |-> FALSE]]

\* AsgardeoTokenManager.invalidate_token
InvalidateToken(m) ==
    [m EXCEPT !.access_token = Nil, !.token_expiry = NoTime,
              !.last = [op |-> "invalidate_token", fetched |-> FALSE,
                        result |-> Nil, raised |-> FALSE]]

MInit ==
    /\ now = 0
    /\ ticks = 0
    /\ auth = NewTokenManager
    /\ OrchIdle
    /\ VerifierIdle

MTickSizes == {300, 3000, 3300}

MTick ==
    /\ ticks < MaxTicks
    /\ \E d \in MTickSizes : now' = now + d
    /\ ticks' = ticks + 1
    /\ auth' = [auth EXCEPT !.last = NoOp]
    /\ UNCHANGED environ
    /\ UNCHANGED verifierVars
    /\ UNCHANGED orchVars

MGetToken ==
    /\ auth.calls < MaxCalls
    /\ \E ans \in TokenResponses : auth' = GetToken(auth, now, ans)
    /\ UNCHANGED <<now, ticks, environ>>
    /\ UNCHANGED verifierVars
    /\ UNCHANGED orchVars

MInvalidate ==
    /\ auth' = InvalidateToken(auth)
    /\ UNCHANGED <<now, ticks, environ>>
    /\ UNCHANGED verifierVars
    /\ UNCHANGED orchVars

MNext == MTick \/ MGetToken \/ MInvalidate

MSpec == MInit /\ [][MNext]_vars

(***************************************************************************)
(* Properties                                                              *)
(***************************************************************************)

Handled == resp.status # 0

WellFormedBearer(r) ==
    /\ r.auth.present
    /\ r.auth.n = 2
    /\ Lower(r.auth.scheme) = "bearer"

\* a protected request with a well-formed Bearer header reached an enabled verifier
Checked == Handled /\ mw.enabled /\ ~IsPublicPath(req.path) /\ WellFormedBearer(req)

Member(x, list) == \E i \in 1..Len(list) : list[i] = x

\* the keys of a key set that carry the token's kid
KeysFor(jwks, token) == {i \in 1..Len(jwks.keys) : jwks.keys[i].kid = token.kid}

\* signature, issuer and expiry of the token are valid against the key set
ValidAgainst(jwks, token) ==
    /\ token.jwt
    /\ jwks # Nil
    /\ \E i \in KeysFor(jwks, token) :
          /\ \A j \in KeysFor(jwks, token) : i <= j
          /\ jwks.keys[i].n = token.signer
    /\ token.iss = mw.issuer
    /\ (token.exp # NoExp => token.exp >= now)

\* the token's aud is a member of the accepted set
AudAccepted(token) ==
    /\ token.jwt
    /\ token.aud.kind = "str"
    /\ Member(token.aud.vals[1], mw.valid_audiences)

VerifierFault(jwks, token) ==
    \/ jwks = Nil
    \/ /\ token.jwt
       /\ \/ ~jwks.hasKeys
          \/ \E i \in KeysFor(jwks, token) :
                /\ \A j \in KeysFor(jwks, token) : i <= j
                /\ ~jwks.keys[i].use

C2_AsStated ==
    (Handled /\ entry \in EntryPoints /\ mw.enabled
       /\ ~IsPublicPath(req.path) /\ resp.forwarded)
    => resp.payload # Nil

\* ---- the orchestrator ---------------------------------------------------

Talked    == call # Nil /\ call.op = "talk_to_agent"
Exchanged == call # Nil /\ call.op = "exchange_token_for_agent"

\* the requests of one kind the current call has put on the network
Sent(kind) == {i \in 1..Len(call.net) : call.net[i].kind = kind}

\* C3: every request talk_to_agent sends to a downstream service S carries
\* Authorization: Bearer t with t the delegated token obtained for S: never
\* the master token, never another service's token, never no token.
C3_DelegatedTokenOnly ==
    Talked =>
        \A i \in Sent("a2a") :
            LET rq == call.net[i] IN
            /\ rq.to = call.agent
            /\ rq.authorization # Nil
            /\ rq.authorization # MASTER_TOKEN
            /\ rq.authorization.kind = "delegated"
            /\ rq.authorization.for = rq.to
            /\ rq.authorization \in {DELEGATED_TOKENS[rq.to], call.token}

\* C3 witness: the token was exchanged and attached within one call
C3_Witness ==
    /\ Talked
    /\ Sent("exchange") # {}
    /\ \E i \in Sent("a2a") : call.net[i].authorization = DELEGATED_TOKENS[call.agent]
    /\ MASTER_TOKEN # Nil

\* C4 (as stated): whenever the orchestrator sends a token-exchange request,
\* the master token is set and has not expired.
C4_AsStated ==
    Talked =>
        \A i \in Sent("exchange") :
            /\ MASTER_TOKEN # Nil
            /\ call.net[i].subject_token = MASTER_TOKEN
            /\ ~(MASTER_TOKEN.exp < call.net[i].at)

\* C5 (as stated): a token served from a cache, by the exchanger or by
\* talk_to_agent, has more than the 60 second margin of lifetime left.
C5_AsStated ==
    (call # Nil /\ call.token # Nil /\ Sent("exchange") = {})
    => call.token.exp - now > SafetyMargin

\* C6: exchange_token_for_agent called for a service whose cached entry has
\* not passed its expiry returns exactly that token and sends nothing to the
\* IdP, whichever master token is passed.
C6_CacheHit ==
    [][ (call = Nil /\ call' # Nil /\ call'.op = "exchange_token_for_agent")
        => LET entry_ == token_cache[call'.agent] IN
           (entry_ # NoEntry /\ now < entry_.expiry)
           => /\ call'.ok
              /\ call'.token = entry_.token
              /\ call'.net = <<>>
              /\ token_cache' = token_cache ]_vars

\* C6 witness: a hit for a caller that passed another master token
C6_Witness ==
    /\ Exchanged
    /\ call.ok
    /\ call.net = <<>>
    /\ call.master = StaleMaster
    /\ token_cache[call.agent] # NoEntry
    /\ call.token = token_cache[call.agent].token
    /\ now < token_cache[call.agent].expiry

\* C7 (as stated): after a service answered 401 to a request that carried
\* its delegated token, the cached token of that service is invalidated.
C7_AsStated ==
    (Talked /\ call.error.body = "401"
       /\ \E i \in Sent("a2a") : call.net[i].authorization # Nil)
    => /\ DELEGATED_TOKENS[call.agent] = Nil
       /\ token_cache[call.agent] = NoEntry

\* C8 (as stated): a failed exchange for S raises an error that names S and
\* carries the IdP's error body, caches no token for S, and leaves the
\* master token and every other service's cached token as they were.
C8_AsStated ==
    [][ (call = Nil /\ call' # Nil /\ call'.op = "exchange_token_for_agent"
           /\ ~call'.ok)
        => /\ call'.error.agent = call'.agent
           /\ \A i \in 1..Len(call'.net) :
                 call'.net[i].kind \in {"actor", "exchange"}
           /\ call'.token = Nil
           /\ token_cache'[call'.agent] = NoEntry
           /\ MASTER_TOKEN' = MASTER_TOKEN
           /\ \A a \in KnownAgents \ {call'.agent} :
                 token_cache'[a] = token_cache[a] ]_vars

\* ---- the verifier, continued ----------------------------------------------

\* aud matches a member of the accepted set (aud may hold several values)
AudMatchesAny(token) ==
    \E i \in 1..Len(token.aud.vals) : Member(token.aud.vals[i], mw.valid_audiences)

\* C9 (as stated): with a non-empty accepted set, the audience check passes
\* whenever the token's aud matches any member of the set and fails only
\* when it matches none.
C9_AsStated ==
    (Checked /\ mw.valid_audiences # <<>>
       /\ ~VerifierFault(resp.jwks, req.auth.token)
       /\ ValidAgainst(resp.jwks, req.auth.token))
    => (resp.forwarded <=> AudMatchesAny(req.auth.token))

\* C10: a request whose token's kid matches no key of the current JWKS is
\* rejected with 401 invalid_token and is not forwarded.
C10_UnknownKid ==
    (Checked /\ req.auth.token.jwt
       /\ mw.jwks_cache # Nil /\ mw.jwks_cache.hasKeys
       /\ KeysFor(mw.jwks_cache, req.auth.token) = {})
    => /\ resp.status = 401
       /\ resp.error = "invalid_token"
       /\ ~resp.forwarded
       /\ resp.payload = Nil

\* C10 witness: a token signed with the rotated key, checked against the old key set
C10_Witness ==
    /\ Checked
    /\ req.auth.token.jwt
    /\ mw.jwks_cache = DocOld
    /\ req.auth.token.kid = "k2"
    /\ req.auth.token.signer = "m2"
    /\ req.auth.token.iss = mw.issuer
    /\ resp.status = 401

\* ---- the JWKS cache and the verifier's modes ------------------------------

\* the cached key set is younger than the duration
Fresh(m, t) ==
    /\ m.jwks_cache # Nil
    /\ m.jwks_cache_time # NoTime
    /\ t - m.jwks_cache_time < JwksCacheDuration

\* the request being answered has a token whose kid is in no key of the
\* key set that was read for it
UnknownKid ==
    /\ Checked
    /\ req.auth.token.jwt
    /\ resp.jwks # Nil
    /\ resp.jwks.hasKeys
    /\ KeysFor(resp.jwks, req.auth.token) = {}

\* C11: an unmatched kid fails immediately: the request is rejected without
\* a forced JWKS fetch, the key set that was read stays the cached one with
\* its fetch time, and with a fresh cache nothing is fetched and the cache
\* is untouched, so a rotated key stays unknown until the TTL refresh.
C11_NoForcedRefresh ==
    [][ (Idle /\ UnknownKid')
        => /\ resp'.status = 401
           /\ resp'.error = "invalid_token"
           /\ mw'.jwks_cache = resp'.jwks
           /\ Fresh(mw, now) =>
                 /\ ~resp'.fetched
                 /\ mw' = mw
           /\ ~Fresh(mw, now) =>
                 mw'.jwks_cache_time \in {now, mw.jwks_cache_time} ]_vars

\* C11 witness: the rotated key is at the endpoint, the old key set is
\* cached and fresh, and the token signed with the rotated key is rejected
C11_Witness ==
    /\ UnknownKid
    /\ mw.jwks_cache = DocOld
    /\ Fresh(mw, now)
    /\ ~resp.fetched
    /\ req.auth.token.kid = "k2"
    /\ req.auth.token.signer = "m2"
    /\ resp.status = 401

\* a path on the allowlist, by prefix
OnAllowlist(path) ==
    \E p \in PublicPaths : Len(p) <= Len(path) /\ \A i \in 1..Len(p) : path[i] = p[i]

\* C12: a request to a path on the public allowlist (matched by prefix) is
\* forwarded with no verification, no JWKS fetch and never a 401, whatever
\* its Authorization header is.
C12_PublicPath ==
    [][ (Idle /\ Handled' /\ OnAllowlist(req'.path))
        => /\ resp'.forwarded
           /\ resp'.status = AppStatus
           /\ resp'.payload = Nil
           /\ ~resp'.fetched
           /\ mw' = mw ]_vars

\* C12 witness: a path matched by prefix only, with an invalid token, on an
\* enabled verifier
C12_Witness ==
    /\ Handled
    /\ mw.enabled
    /\ req.path = <<"/health", "z">>
    /\ req.auth.present
    /\ req.auth.n = 2
    /\ ~req.auth.token.jwt
    /\ resp.forwarded

\* C13 (as stated): the verifier is in disabled mode only when the
\* auth-enabled flag was explicitly set to disable it, never by default or
\* because other configuration is absent.
C13_AsStated ==
    ~mw.enabled => environ.ASGARDEO_AUTH_ENABLED \notin {None, "True"}

C15_AsStated ==
    (Checked /\ resp.fetched /\ mw.jwks_cache_time # now)
    => IF mw.jwks_cache # Nil
       THEN resp.jwks = mw.jwks_cache
       ELSE resp.jwks = Nil /\ resp.status = 500

\* ---- master-token acquisition ----------------------------------------------

\* the expiry of the cached master token: the one the authenticator keeps,
\* or the token's own where it keeps none
CachedExpiry(a) ==
    IF a.token_expiry # NoTime THEN a.token_expiry ELSE a.master_token.exp

\* C16 (as stated): for both strategies, authenticate_user called while the
\* cached master token is more than 5 minutes from expiry returns that
\* token and sends no request to the IdP.
C16_AsStated ==
    [][ (/\ auth'.calls = auth.calls + 1
         /\ auth.master_token # Nil
         /\ CachedExpiry(auth) - now > ExpiryBuffer)
        => /\ auth'.pc = "returned"
           /\ auth'.result = auth.master_token
           /\ auth'.master_token = auth.master_token
           /\ auth'.net = NoCalls ]_vars

\* C17: while the timeout is not reached every iteration sends one poll,
\* and the poll answered 200 ends the loop: after n polls answered
\* authorization_pending exactly n+1 polls have been sent and the token of
\* the last response is returned.
C17_PollCount ==
    [][ auth.pc = "polling" =>
        /\ (now - auth.start_time <= PollTimeout) =>
              /\ auth'.polls = auth.polls + 1
              /\ auth'.last_poll_at = now
        /\ (auth'.polls = auth.polls + 1 /\ auth'.last = "200") =>
              /\ auth'.pc = "returned"
              /\ auth'.polls = auth.pendings + auth.slow_downs + 1
              /\ auth.slow_downs = 0 => auth'.polls = auth.pendings + 1
              /\ auth'.result # Nil
              /\ auth'.result.exp - now \in {600, 3600}
              /\ now' = now ]_vars

\* C17 witness: three polls answered authorization_pending, then success
C17_Witness ==
    /\ auth # Nil
    /\ auth.pc = "returned"
    /\ auth.pendings = 3
    /\ auth.slow_downs = 0
    /\ auth.polls = 4
    /\ auth.result = auth.master_token

\* C18: in the poll loop the interval never decreases, slow_down raises it
\* by 5 s before the next poll, authorization_pending leaves it unchanged,
\* and the wait before the next poll lasts the current interval.
C18_Interval ==
    [][ auth.pc = "polling" =>
        /\ auth'.interval >= auth.interval
        /\ auth'.last = "slow_down" => auth'.interval = auth.interval + SlowDownStep
        /\ auth'.last = "authorization_pending" => auth'.interval = auth.interval
        /\ auth'.pc = "polling" =>
              /\ now' - now = auth'.interval
              /\ auth'.last \in {"slow_down", "authorization_pending"} ]_vars

\* C18 witness: two slow_down answers on a stated interval of 10 s
C18_Witness ==
    /\ auth # Nil
    /\ auth.pc = "polling"
    /\ auth.slow_downs = 2
    /\ auth.pendings = 1
    /\ auth.interval = 20
    /\ auth.waited = 20

AbortCodes == {"expired_token", "access_denied", "server_error"}

\* C19: a poll answered expired_token, access_denied or an unrecognised
\* error makes poll_for_token raise; no further poll is sent in that
\* attempt and the cached master token is left as it was.
C19_Abort ==
    [][ /\ (auth.pc = "polling" /\ auth'.polls = auth.polls + 1
              /\ auth'.last \in AbortCodes)
           => /\ auth'.pc = "raised"
              /\ auth'.result = Nil
              /\ auth'.master_token = auth.master_token
              /\ auth'.token_expiry = auth.token_expiry
        /\ (auth.pc = "raised" /\ auth'.calls = auth.calls)
           => /\ auth'.polls = auth.polls
              /\ auth'.net = auth.net
              /\ auth'.master_token = auth.master_token ]_vars

\* C19 witness: access_denied on the second poll of a first attempt
C19_Witness ==
    /\ auth # Nil
    /\ auth.pc = "raised"
    /\ auth.last = "access_denied"
    /\ auth.polls = 2
    /\ auth.master_token = Nil
    /\ auth.error = "Authentication failed"

\* C20: the poll loop always ends, with a token or an exception, whatever
\* the token endpoint answers, and no poll is sent once more than 300 s
\* have elapsed since the loop began.
C20_Terminates ==
    /\ (auth.pc = "polling") ~> (auth.pc \in {"returned", "raised"})
    /\ [](auth.polls > 0 => auth.last_poll_at - auth.start_time <= PollTimeout)

\* C20 witness: the loop ended by the timeout after answers of both kinds
C20_Witness ==
    /\ auth # Nil
    /\ auth.pc = "raised"
    /\ auth.error = "TimeoutError"
    /\ auth.pendings > 0
    /\ auth.slow_downs > 0
    /\ now - auth.start_time > PollTimeout

\* ---- the authorization-code flow ---------------------------------------------

\* the step is one attempt; the attempt got as far as starting its listener
Attempt == auth'.attempts = auth.attempts + 1
Listened(att) == att.port # NoPort

\* the code-exchange requests of an attempt
CodeExchanges(att) == { i \in DOMAIN att.net : att.net[i].kind = "code" }

\* the redirect brought no usable code: it was an error, or had no code, or
\* never came
BadCallback(cb) == cb = NoCallback \/ cb.error # None \/ cb.code = Nil

\* RFC 7636 S256: BASE64URL(SHA256(ASCII(code_verifier))) without padding, 43
\* characters for the 32-byte digest
S256(code_verifier) == [chars |-> 43, pad |-> 0, b64url |-> Sha256(Encode(code_verifier))]

\* C21 (as stated): the callback listener serves at most one request per
\* attempt and is closed, its port released, by the time the attempt ends,
\* whatever the outcome; no listener stays open across attempts.
C21_AsStated ==
    /\ auth.last.served <= 1
    /\ auth.listening = {}

\* C22: in both variants a callback that carries an error, carries no code or
\* never arrives makes the attempt raise, with no code-exchange request sent
\* and no token cached; a code exchange is only ever sent with the code of
\* this attempt's own callback, and a clean callback is never refused because
\* of what an earlier attempt left in the handler.
C22_BadCallbackRaises ==
    [][ (Attempt /\ Listened(auth'.last)) =>
          LET att == auth'.last
              cb  == att.callback
          IN
          /\ BadCallback(cb) =>
                /\ att.raised # None
                /\ CodeExchanges(att) = {}
                /\ att.result = Nil
                /\ auth'.access_token = auth.access_token
          /\ \A i \in CodeExchanges(att) :
                ~BadCallback(cb) /\ att.net[i].code = cb.code
          /\ ~BadCallback(cb) => CodeExchanges(att) # {}
      ]_vars

\* a later attempt times out and raises although an earlier one has left its
\* code in the handler and its token in the authenticator
C22_Witness ==
    /\ auth.attempts >= 2
    /\ auth.access_token # Nil
    /\ auth.handler.authorization_code = Nil
    /\ auth.last.entry = "authenticate_user_with_delegation"
    /\ auth.last.callback = NoCallback
    /\ auth.last.raised = "Failed to receive authorization code"

\* C23 (as stated): whenever the authorization request of an attempt carried
\* requested_actor, the code-exchange request of that attempt carries an
\* actor_token and actor_token_type, for every entry point that can add
\* requested_actor.
C23_AsStated ==
    \A i \in CodeExchanges(auth.last) :
        auth.last.authorize.requested_actor # NoActor =>
            /\ auth.last.net[i].actor_token # Nil
            /\ auth.last.net[i].actor_token_type = AccessTokenType

\* C24: in every attempt the code_challenge of the authorization URL is the
\* S256 transform of the code_verifier sent in that attempt's code exchange,
\* with code_challenge_method S256; the pair is new in every attempt and no
\* verifier is used twice.
C24_PkcePairing ==
    [][ (Attempt /\ auth'.last.pkce # Nil) =>
          LET att == auth'.last IN
          /\ att.authorize.code_challenge_method = "S256"
          /\ att.authorize.code_challenge = S256(att.pkce.code_verifier)
          /\ \A i \in CodeExchanges(att) :
                att.authorize.code_challenge = S256(att.net[i].code_verifier)
          /\ att.pkce.code_verifier \notin auth.used
      ]_vars

\* a second attempt has sent its code exchange
C24_Witness ==
    /\ auth.attempts >= 2
    /\ Cardinality(auth.used) >= 2
    /\ CodeExchanges(auth.last) # {}
    /\ auth.last.result # Nil

\* ---- the exchanger's requests -------------------------------------------------

\* the ServiceIdentity the resolver has registered for the service of the call
Identity == orch.AGENT_CONFIGS[call.agent]

\* the call was refused for want of a client secret
NoSecretError == call.error.template = "No client secret configured for"

\* C25 (as stated): a service without a registered, non-placeholder client
\* secret makes the exchange fail with a configuration error before any
\* request is sent, and nothing is cached; a service whose resolved
\* ServiceIdentity holds a valid secret is never refused as having no secret.
C25_AsStated ==
    Exchanged =>
        /\ NoSecretError =>
              /\ ~call.ok
              /\ call.net = <<>>
              /\ call.token = Nil
        /\ IsValid(Identity.app_secret) => ~NoSecretError

\* C26: every exchange request for S follows, within the same call, exactly
\* one client-credentials request for an actor token with scope openid and
\* S's own credentials, and that request succeeded; when it fails no exchange
\* request is sent; the exchanger keeps delegated tokens only.
C26_ActorMintFirst ==
    /\ (call # Nil /\ call.agent \in KnownAgents) =>
          /\ \A i \in Sent("exchange") :
                /\ Sent("actor") = {i - 1}
                /\ call.net[i - 1].grant_type = "client_credentials"
                /\ call.net[i - 1].scope = "openid"
                /\ call.net[i - 1].basic = <<Identity.app_id, Identity.app_secret>>
                /\ call.error.template # "Failed to get actor token:"
                /\ call.error.body \notin { a.body : a \in {b \in ActorAnswers : b.status # 200} }
          /\ Cardinality(Sent("actor")) <= 1
    /\ \A a \in KnownAgents :
          /\ token_cache[a] # NoEntry => token_cache[a].token.kind = "delegated"
          /\ DELEGATED_TOKENS[a] # Nil => DELEGATED_TOKENS[a].kind = "delegated"

\* an exchange request has gone out after the mint; in another call the mint
\* was refused and nothing followed it
C26_Witness ==
    /\ Exchanged
    /\ Sent("actor") = {1}
    /\ Sent("exchange") = {2}
    /\ call.ok

\* C27: every exchange request carries HTTP Basic credentials made of the
\* target service's own client id and secret, never the orchestrator's, and
\* the token it yields is cached under the name of that same service only.
C27_ServiceCredentials ==
    (call # Nil /\ call.agent \in KnownAgents) =>
        \A i \in Sent("exchange") :
            /\ call.net[i].basic = <<Identity.app_id, Identity.app_secret>>
            /\ call.net[i].basic # <<OrchestratorClientId, OrchestratorClientSecret>>
            /\ call.net[i].basic[1] # OrchestratorClientId
            /\ (call.token # Nil) =>
                  /\ token_cache[call.agent] # NoEntry
                  /\ token_cache[call.agent].token = call.token
                  /\ call.token.for = call.agent
                  /\ \A b \in KnownAgents \ {call.agent} :
                        token_cache[b] # NoEntry => token_cache[b].token # call.token

\* a token obtained with the service's credentials sits in the cache under
\* the service's name
C27_Witness ==
    /\ Talked
    /\ Sent("exchange") # {}
    /\ call.token # Nil
    /\ token_cache[call.agent] # NoEntry
    /\ \E b \in KnownAgents \ {call.agent} : token_cache[b] # NoEntry

\* C28 (as stated): the scope requested in an exchange for S is S's required
\* scope and nothing else, and the token is bound to S's client id as its
\* audience, whatever the master token carries.
C28_AsStated ==
    (call # Nil /\ call.agent \in KnownAgents) =>
        \A i \in Sent("exchange") :
            /\ call.net[i].scope = <<Identity.required_scope>>
            /\ call.net[i].audience \in {"", Identity.app_id}

\* ---- discovery ------------------------------------------------------------------

\* the cards discovery has fetched so far
Fetched == { orch.scanned[i] : i \in {j \in DOMAIN orch.scanned : orch.scanned[j] # Unreachable} }

\* C29 (as stated): the resolver never registers a ServiceIdentity whose
\* client id, secret or scope still contains an angle-bracket template,
\* whichever strategy supplied it, and no actor-token or exchange request is
\* ever sent with such a value as its credentials.
C29_AsStated ==
    /\ \A a \in KnownAgents :
          orch.AGENT_CONFIGS[a] # Nil =>
             /\ orch.AGENT_CONFIGS[a].app_id \notin AngleBracketed
             /\ orch.AGENT_CONFIGS[a].app_secret \notin AngleBracketed
             /\ orch.AGENT_CONFIGS[a].required_scope \notin AngleBracketed
    /\ call # Nil =>
          \A i \in Sent("actor") \cup Sent("exchange") :
             /\ call.net[i].basic[1] \notin AngleBracketed
             /\ call.net[i].basic[2] \notin AngleBracketed

\* C30: a URL that cannot be reached, or a service for which the resolver
\* finds no configuration, takes nothing away from the other services: every
\* service whose card was fetched is known, and is configured exactly when
\* its own card and variables resolve. A call to a known service without
\* configuration returns an error naming that service, sends no request and
\* leaves every token, cached or delegated, as it was.
C30_FailureIsolated ==
    /\ [](\A card \in Fetched :
             /\ card.name \in orch.KNOWN_AGENTS
             /\ (orch.AGENT_CONFIGS[card.name] # Nil) <=> (ResolveConfig(orch.env, card) # Nil))
    /\ [][ (call = Nil /\ call' # Nil /\ call'.agent \in orch.KNOWN_AGENTS
              /\ orch.AGENT_CONFIGS[call'.agent] = Nil)
           => /\ ~call'.ok
              /\ call'.net = <<>>
              /\ call'.error.agent = call'.agent
              /\ DELEGATED_TOKENS' = DELEGATED_TOKENS
              /\ token_cache' = token_cache
              /\ serial' = serial ]_vars

\* with one URL unreachable and one service left without configuration, a
\* third service has been called and has answered with its own token
C30_Witness ==
    /\ \E i \in DOMAIN orch.scanned : orch.scanned[i] = Unreachable
    /\ \E a \in orch.KNOWN_AGENTS : orch.AGENT_CONFIGS[a] = Nil
    /\ Talked
    /\ call.ok
    /\ Sent("exchange") # {}

\* ---- concurrent exchange calls ------------------------------------------------

\* C31 (as stated): under concurrent exchange calls for the same service the
\* check-then-fetch-then-store sequence is mutually exclusive: never are two
\* actor-token or exchange requests for the same service in flight at once,
\* and callers that overlapped end up with the same delegated token.
C31_AsStated ==
    \A t \in Tasks, u \in Tasks :
        (t # u /\ call[t].agent = call[u].agent) =>
            /\ ~(InFlight(call[t]) /\ InFlight(call[u]))
            /\ (call[t].pc = "done" /\ call[u].pc = "done" /\ (call[t].raced \/ call[u].raced))
                  => call[t].token = call[u].token

\* ---- verified claims and the business logic -------------------------------------

\* C32 (as stated): what was verified for one request is visible to the
\* handling of that request only and is not kept: the handling of a later
\* request, in particular one without a token, is never marked or treated as
\* verified because of an earlier request's token.
C32_AsStated ==
    resp.verified => req.token \notin {None, ""}

\* ---- the client-credentials token manager ---------------------------------------

\* a token is cached whose expiry is more than 300 s away
CachedFor300(m, t) ==
    m.access_token # Nil /\ m.token_expiry # NoTime /\ m.token_expiry - t > 300

\* the step is a call of get_token
GetTokenCalled == auth'.last.op = "get_token" /\ now' = now /\ auth' # auth

\* C33: get_token sends a token-endpoint request exactly when no token is
\* cached whose expiry is more than 300 s away, and otherwise returns the
\* cached token without a request; after invalidate_token nothing is cached,
\* so the next get_token fetches; a failed fetch raises and leaves the cache
\* as it was.
C33_FetchIffStale ==
    [][ /\ GetTokenCalled =>
            /\ auth'.last.fetched <=> ~CachedFor300(auth, now)
            /\ auth'.last.fetched <=> (auth'.calls = auth.calls + 1)
            /\ ~auth'.last.fetched =>
                  /\ auth'.last.result = auth.access_token
                  /\ auth'.calls = auth.calls
                  /\ auth'.access_token = auth.access_token
                  /\ auth'.token_expiry = auth.token_expiry
            /\ auth'.last.raised =>
                  /\ auth'.last.fetched
                  /\ auth'.access_token = auth.access_token
                  /\ auth'.token_expiry = auth.token_expiry
            /\ (auth'.last.fetched /\ ~auth'.last.raised) =>
                  /\ auth'.last.result = auth'.access_token
                  /\ auth'.last.result # auth.access_token
        /\ auth'.last.op = "invalidate_token" => ~CachedFor300(auth', now')
      ]_vars

\* a token fetched earlier is returned from the cache, and in another state a
\* fetch has failed with a token still cached
C33_Witness ==
    /\ auth.last.op = "get_token"
    /\ auth.last.raised
    /\ auth.access_token # Nil
    /\ auth.calls = 2
    /\ now >= 300

\* ---- the order of the verifier's checks ------------------------------------------

\* the step handles one inbound request
Arrives == req = NoRequest /\ req' # NoRequest

\* the parts of the Authorization header are exactly "bearer" (in any case) and a token
TwoPartBearer(h) == h.present /\ h.n = 2 /\ h.scheme \in {"bearer", "Bearer", "BEARER"}

\* no request for the key set was made and the cache is as it was
CacheUntouched ==
    /\ ~resp'.fetched
    /\ mw'.jwks_cache = mw.jwks_cache
    /\ mw'.jwks_cache_time = mw.jwks_cache_time

\* C34 (as stated): on a protected path of an enabled verifier a request
\* without the header is answered 401 unauthorized, one whose header is not
\* exactly two parts with scheme bearer is answered 401 invalid_request, and
\* in both cases no JWKS fetch is made and the cache is unchanged.
C34_AsStated ==
    [][ (Arrives /\ mw.enabled /\ ~IsPublicPath(req'.path)) =>
          /\ ~req'.auth.present =>
                (resp'.status = 401 /\ resp'.error = "unauthorized" /\ CacheUntouched)
          /\ (req'.auth.present /\ ~TwoPartBearer(req'.auth)) =>
                (resp'.status = 401 /\ resp'.error = "invalid_request" /\ CacheUntouched)
      ]_vars

\* C34 (amended): the checks run in the order disabled, public path, header
\* present and non-empty, two parts with scheme bearer, token validation, and
\* the first failure ends them: a disabled verifier or a public path
\* forwards whatever the header is; otherwise a missing or empty header is
\* answered 401 unauthorized, a non-empty header that is not exactly two
\* parts with scheme bearer (in any case) 401 invalid_request, both without a
\* JWKS fetch and with the cache unchanged, and only a two-part bearer
\* header reaches token validation.
C34_Amended ==
    [][ Arrives =>
          IF ~mw.enabled \/ IsPublicPath(req'.path)
          THEN resp'.forwarded /\ resp'.status = AppStatus /\ CacheUntouched
          ELSE IF ~req'.auth.present \/ req'.auth.n = 0
          THEN /\ resp'.status = 401 /\ resp'.error = "unauthorized"
               /\ ~resp'.forwarded /\ CacheUntouched
          ELSE IF ~TwoPartBearer(req'.auth)
          THEN /\ resp'.status = 401 /\ resp'.error = "invalid_request"
               /\ ~resp'.forwarded /\ CacheUntouched
          ELSE resp'.error \notin {"unauthorized", "invalid_request"}
      ]_vars

\* an empty header was answered unauthorized by a verifier that had a key set cached
C34_Witness ==
    /\ mw.enabled
    /\ mw.jwks_cache # Nil
    /\ ~IsPublicPath(req.path)
    /\ req.auth = EmptyHeader
    /\ resp.status = 401
    /\ resp.error = "unauthorized"
    /\ ~resp.fetched

\* ---- failing closed ------------------------------------------------------------------

\* C35: with no key set cached, a protected request with a well-formed
\* Bearer header makes the verifier fetch the JWKS, and when that fetch
\* fails (nothing is cached afterwards either) the answer is 500
\* server_error, the request is not forwarded whatever the token is, and the
\* cache stays unset, so that the next request fetches again.
C35_FailsClosed ==
    [][ (Arrives /\ mw.enabled /\ ~IsPublicPath(req'.path) /\ TwoPartBearer(req'.auth)
         /\ mw.jwks_cache = Nil) =>
          /\ resp'.fetched
          /\ mw'.jwks_cache = Nil =>
                /\ resp'.status = 500
                /\ resp'.error = "server_error"
                /\ ~resp'.forwarded
                /\ resp'.payload = Nil
                /\ mw'.jwks_cache_time = NoTime
      ]_vars

\* a request carrying a good token was refused 500 after a failed fetch with
\* nothing cached
C35_Witness ==
    /\ Checked
    /\ req.auth.token = GoodToken
    /\ resp.fetched
    /\ mw.jwks_cache = Nil
    /\ resp.status = 500
    /\ ~resp.forwarded
    /\ ticks > 0

\* ---- consistency of the key-set cache ---------------------------------------------

\* C36 (as stated): the cached key set and its fetch time are both unset or
\* both set in every reachable state, and they change only together, by a
\* fetch that succeeded and whose key set and time are the ones stored; a
\* failed refresh changes neither.
C36_AsStated ==
    /\ [](mw.jwks_cache = Nil <=> mw.jwks_cache_time = NoTime)
    /\ [][ (mw'.jwks_cache # mw.jwks_cache \/ mw'.jwks_cache_time # mw.jwks_cache_time) =>
              /\ resp'.fetched
              /\ mw'.jwks_cache # Nil
              /\ mw'.jwks_cache = resp'.jwks
              /\ mw'.jwks_cache_time = now
         ]_vars

\* ---- the orchestrator's delegated tokens -------------------------------------------

\* C37 (as stated): once DELEGATED_TOKENS holds a token for a service it is
\* never replaced or removed, every later talk_to_agent call to that service
\* uses that same token, and no exchange succeeds for a service whose token
\* is already held.
C37_AsStated ==
    [][ \A a \in KnownAgents :
          DELEGATED_TOKENS[a] # Nil =>
             /\ DELEGATED_TOKENS'[a] = DELEGATED_TOKENS[a]
             /\ \A t \in Tasks :
                   (call[t].pc = "idle" /\ call'[t].pc # "idle" /\ call'[t].agent = a) =>
                       (call'[t].pc = "served" /\ call'[t].token = DELEGATED_TOKENS[a])
             /\ \A t \in Tasks :
                   (call[t].pc = "exchange" /\ call[t].agent = a) => call'[t].pc # "done"
      ]_vars

\* ---- the state parameter of the redirect ------------------------------------------------

\* the attempt served a redirect that carries a code and no error
CodeCallback(a) ==
    a.port # NoPort /\ a.served = 1 /\ a.callback.code # Nil /\ a.callback.error = None

\* C38: every attempt sends a state of its own in the authorization URL, and
\* a redirect that carries a code and no error is taken whatever its state
\* is: the attempt does not fail at the callback, and the request it then
\* posts to the token endpoint carries the code of that redirect.
C38_StateIgnored ==
    /\ auth.last.pkce # Nil => auth.last.authorize.state = State(auth.attempts)
    /\ CodeCallback(auth.last) =>
          /\ auth.last.raised \notin {"Asgardeo error", "Failed to receive authorization code"}
          /\ auth.handler.authorization_code = auth.last.callback.code
          /\ auth.last.net # <<>>
          /\ auth.last.net[Len(auth.last.net)].kind = "code"
          /\ auth.last.net[Len(auth.last.net)].code = auth.last.callback.code

\* an attempt ended with a token although the state of the redirect was not its own
C38_Witness ==
    /\ CodeCallback(auth.last)
    /\ auth.last.callback.state = ForeignState
    /\ auth.last.authorize.state # ForeignState
    /\ auth.last.result # Nil

\* ---- failed authentication and failed refresh ---------------------------------------

\* the cached master token, refresh token and expiry
Cached(a) == <<a.master_token, a.refresh_token, a.token_expiry>>

\* the step is a call of refresh_master_token
Refreshed == auth'.refreshes = auth.refreshes + 1

\* C39: a device-flow authentication or a refresh that raises leaves the
\* cached master token, refresh token and expiry as they were, and they are
\* written only when a call returns after a 200 token response;
\* refresh_master_token without a stored refresh token raises without a
\* request; a refresh response without a refresh token keeps the stored one.
C39_FailureKeepsCache ==
    [][ /\ (auth' # auth /\ auth'.pc # "returned") => Cached(auth') = Cached(auth)
        /\ Cached(auth') # Cached(auth) =>
              /\ auth'.pc = "returned"
              /\ auth'.net.token >= 1
              /\ auth'.last \in {"200", "200 refresh_token"}
              /\ auth'.master_token = auth'.result
        /\ (Refreshed /\ auth.refresh_token = Nil) =>
              /\ auth'.pc = "raised"
              /\ auth'.net = NoCalls
        /\ (Refreshed /\ auth'.last = "200") =>
              /\ auth'.refresh_token = auth.refresh_token
              /\ auth'.master_token # auth.master_token
        /\ (Refreshed /\ auth'.last = "200 refresh_token") =>
              auth'.refresh_token \notin {auth.refresh_token, Nil}
      ]_vars

\* a refresh was refused by the token endpoint while a master token and a
\* refresh token were cached
C39_Witness ==
    /\ auth.refreshes > 0
    /\ auth.pc = "raised"
    /\ auth.net.token = 1
    /\ auth.master_token # Nil
    /\ auth.refresh_token # Nil

\* ---- no accepted audience configured ----------------------------------------------

\* neither an agent id nor an API-resource identifier is configured
NoAccepted == mw.agent_id = "" /\ mw.api_resource_identifier = ""

====
